---- MODULE Spec2Model ----
(***************************************************************************)
(* State-machine model of the NSE derivative-quote polling scripts:        *)
(*   dev/day_excel.py            gated polling loop, nearest-expiry filter *)
(*   dev/run.no_shorting_old.py  ungated polling loop with weekly reset    *)
(*   prod/scripts/run_csv.py     one-shot worker, explicit-expiry filter   *)
(*   prod/run_all.py             orchestrator of worker scripts            *)
(* Each script is a specification of its own (SpecGate, SpecDay, ...) over *)
(* one shared set of variables; a specification leaves the variables of    *)
(* the other scripts unchanged.                                            *)
(***************************************************************************)
EXTENDS Integers, Sequences, FiniteSets, TLC

VARIABLES
    now,        \* the wall clock, as datetime.now() reads it
    gate,       \* the value a trading-window gate call has just returned
    files,      \* output/<day>_<key>.<ext>: the snapshot file of each partition
    db,         \* the rows of table nse_data in data.db, in insertion order
    de_pc,      \* day_excel.run: where the loop is
    de_src,     \* day_excel.run: index of the source the for loop is at
    de_expiry,  \* day_excel.run: local variable expiry_date, and the time it was computed at
    sv_call,    \* the sink operation called last, its arguments and the files before it
    sv_last,    \* per snapshot file, the rows the last save call for it was given
    sv_saves,   \* save calls made so far
    ol_pc,      \* run.no_shorting_old.run: where the loop is
    ol_src,     \* run.no_shorting_old.run: index of the source the for loop is at
    ol_step,    \* the last pass of the for loop body: its source, its response, the files before it
    ol_reqs,    \* per source, the kinds of the responses to the requests of the current iteration
    ol_reset,   \* whether the weekly reset has rewritten the files in this run
    ra_pc,      \* run_all.main: where the loop is
    ra_i,       \* run_all.main: index of the process the start loop or the join loop is at
    ra_procs,   \* run_all.main: the list processes of the current cycle
    ra_prev,    \* the list processes of the cycle before
    nm_fn,      \* the normalizer applied last
    nm_in,      \* the arguments it was applied to
    nm_out,     \* what it returned, or that it raised
    cs_pc,      \* run_csv: where the script is
    cs_src,     \* run_csv.run: index of the source the for loop is at
    cs_call,    \* run_csv: the request in flight, its timeout and the seconds waited for it
    cs_shake,   \* run_csv.__init__: how the warm-up request of this launch ended
    cs_reqs,    \* run_csv: per source, the fetch requests sent in this launch
    cs_runs,    \* the launches of run_csv so far
    cs_failed,  \* whether the warm-up request of an earlier launch failed
    db_given,   \* every row handed to a save_to_db call so far, in the order handed
    db_conn,    \* the scripts that are running with a connection to data.db
    tk_pc,      \* the step main of generate_token is about to take
    tk_calls,   \* the step functions called so far, in order, each with its arguments
    tk_results, \* what each call returned, in the same order
    tk_file     \* the contents access_token.py was opened and written with, one per write

clockVars == <<now>>
gateVars == <<gate>>
sinkVars == <<files, db>>
dayVars == <<de_pc, de_src, de_expiry>>
callVars == <<sv_call, sv_last, sv_saves>>
oldVars == <<ol_pc, ol_src, ol_step, ol_reqs, ol_reset>>
allVars == <<ra_pc, ra_i, ra_procs, ra_prev>>
normVars == <<nm_fn, nm_in, nm_out>>
csvVars == <<cs_pc, cs_src, cs_call, cs_shake, cs_reqs, cs_runs, cs_failed>>
dbhVars == <<db_given, db_conn>>
tokVars == <<tk_pc, tk_calls, tk_results, tk_file>>

\* what the actions of each specification leave alone
gateIdle == <<sinkVars, dayVars, callVars, oldVars, allVars, normVars, csvVars, dbhVars, tokVars>>
dayIdle == <<callVars, oldVars, allVars, normVars, csvVars, dbhVars, tokVars>>
sinkIdle == <<gateVars, db, dayVars, oldVars, allVars, normVars, csvVars, dbhVars, tokVars>>
oldIdle == <<gateVars, db, dayVars, callVars, allVars, normVars, csvVars, dbhVars, tokVars>>
allIdle == <<gateVars, sinkVars, dayVars, callVars, oldVars, normVars, csvVars, dbhVars, tokVars>>
normIdle == <<gateVars, sinkVars, dayVars, callVars, oldVars, allVars, csvVars, dbhVars, tokVars>>
csvIdle == <<gateVars, db, dayVars, callVars, oldVars, allVars, normVars, dbhVars, tokVars>>
dbIdle == <<gateVars, files, dayVars, callVars, oldVars, allVars, normVars, csvVars, tokVars>>

vars == <<now, gate, files, db, de_pc, de_src, de_expiry, sv_call, sv_last, sv_saves,
          ol_pc, ol_src, ol_step, ol_reqs, ol_reset, ra_pc, ra_i, ra_procs, ra_prev,
          nm_fn, nm_in, nm_out,
          cs_pc, cs_src, cs_call, cs_shake, cs_reqs, cs_runs, cs_failed,
          db_given, db_conn,
          tk_pc, tk_calls, tk_results, tk_file>>

(***************************************************************************)
(* Bounds of the model                                                     *)
(***************************************************************************)
\* seconds of clock sampled on either side of every window boundary
Margin == 1
\* items in one fetched payload
MaxItems == 2
\* rows of table nse_data up to which a run is followed
MaxDbRows == 2
\* save calls up to which a run of the sinks is followed
MaxSaves == 2
\* seconds a request is followed for, and launches of the worker script
MaxWait == 12
MaxRuns == 2

\* the names of the weekdays, Monday first; the clock ranges over one week of
\* calendar days, day 0 a Monday
DayNames == <<"Monday", "Tuesday", "Wednesday", "Thursday", "Friday", "Saturday", "Sunday">>
NumDays == Len(DayNames)

(***************************************************************************)
(* The clock. A datetime is [day, hour, minute, second, us]; day counts    *)
(* calendar days from a Monday, us is 0 for a whole second and 1 for any   *)
(* non-zero microsecond part.                                              *)
(***************************************************************************)
SecondsPerDay == 24 * 3600

\* datetime of calendar day d at s seconds after midnight
DateTime(d, s, u) ==
    [day |-> d, hour |-> s \div 3600, minute |-> (s % 3600) \div 60,
     second |-> s % 60, us |-> u]

\* datetime.weekday(): Monday is 0
weekday(dt) == dt.day % 7

\* datetime.replace(hour=, minute=, second=, microsecond=)
replace(dt, h, m, s, u) ==
    [day |-> dt.day, hour |-> h, minute |-> m, second |-> s, us |-> u]

\* datetime.time()
timeOf(dt) == <<dt.hour, dt.minute, dt.second, dt.us>>

\* dt_time(h, m)
dt_time(h, m) == <<h, m, 0, 0>>

\* Python compares time objects field by field, most significant first
TimeLe(a, b) ==
    \/ a[1] < b[1]
    \/ a[1] = b[1] /\ a[2] < b[2]
    \/ a[1] = b[1] /\ a[2] = b[2] /\ a[3] < b[3]
    \/ a[1] = b[1] /\ a[2] = b[2] /\ a[3] = b[3] /\ a[4] <= b[4]

\* Python compares datetimes by date, then by time
DateTimeLe(a, b) ==
    \/ a.day < b.day
    \/ a.day = b.day /\ TimeLe(timeOf(a), timeOf(b))

\* seconds since midnight of a datetime
SecOfDay(dt) == dt.hour * 3600 + dt.minute * 60 + dt.second

\* seconds since day 0, 00:00:00
Epoch(dt) == dt.day * SecondsPerDay + SecOfDay(dt)

(***************************************************************************)
(* The trading-window gates                                                *)
(***************************************************************************)
IsTradingHourStrict(t) ==
    LET start_time == replace(t, 9, 15, 0, 0)
        end_time == replace(t, 15, 30, 0, 0)
    IN  /\ DateTimeLe(start_time, t) /\ start_time # t
        /\ DateTimeLe(t, end_time)
        /\ weekday(t) <= 3

\* day_excel.NSEDataFetcher.is_trading_hour, with now = t
is_trading_hour(t) ==
    LET start_time == replace(t, 9, 15, 0, 0)
        end_time == replace(t, 15, 30, 0, 0)
    IN  /\ DateTimeLe(start_time, t)
        /\ DateTimeLe(t, end_time)
        /\ weekday(t) <= 3

\* run_all.is_within_time_range, with now = t
is_within_time_range(start_time, end_time, t) ==
    LET current_time == timeOf(t)
    IN  /\ TimeLe(start_time, current_time)
        /\ TimeLe(current_time, end_time)
        /\ weekday(t) < 5

\* the window run_all.main passes to its gate
ra_start_time == dt_time(9, 15)
ra_end_time == dt_time(15, 40)

(***************************************************************************)
(* Clock values the model samples: every day of the range, and the seconds *)
(* around each boundary of the two windows, plus midnight and noon.        *)
(***************************************************************************)
OpenSec == 9 * 3600 + 15 * 60
CloseDaySec == 15 * 3600 + 30 * 60
CloseAllSec == 15 * 3600 + 40 * 60

Around(s) == {s - Margin, s, s + Margin}

GateSeconds ==
    {0, 12 * 3600, SecondsPerDay - 1} \cup Around(OpenSec)
        \cup Around(CloseDaySec) \cup Around(CloseAllSec)

GateClock ==
    {DateTime(d, s, u) : d \in 0..(NumDays - 1), s \in GateSeconds, u \in {0, 1}}

\* a is strictly earlier than b
Before(a, b) == DateTimeLe(a, b) /\ a # b

NoGate == [fn |-> "none", at |-> DateTime(0, 0, 0), open |-> FALSE]

(***************************************************************************)
(* JSON values of a payload field. t says what the provider sent: the key  *)
(* is missing, the value is null, a number, a string holding a number, or  *)
(* a string holding no number.                                             *)
(***************************************************************************)
Missing == [t |-> "missing", n |-> 0]
Null == [t |-> "null", n |-> 0]
Num(n) == [t |-> "num", n |-> n]
NumStr(n) == [t |-> "numstr", n |-> n]
BadStr == [t |-> "badstr", n |-> 0]
\* the JSON token Infinity, or a string such as "inf" or "Infinity"
Inf == [t |-> "inf", n |-> 0]

\* int(d.get(k, 0) or 0), and float(d.get(k) or 0) of a finite value: a
\* missing key, null and 0 become 0, a number or numeric string its value;
\* any other string raises ValueError, and int() of an infinity raises too
Coalesce(v) ==
    CASE v.t \in {"missing", "null"} -> [ok |-> TRUE, v |-> 0]
      [] v.t \in {"num", "numstr"} -> [ok |-> TRUE, v |-> v.n]
      [] OTHER -> [ok |-> FALSE, v |-> 0]

\* Floats are held as integers; two values outside the range of every
\* finite number of the model stand for float("inf") and float("nan").
Infinity == 1000000
NaN == 0 - 1

\* float(d.get(k) or 0): as int(), but an infinity is truthy and float()
\* returns it
CoalesceFloat(v) == IF v.t = "inf" THEN [ok |-> TRUE, v |-> Infinity] ELSE Coalesce(v)

\* a * b in IEEE arithmetic: inf * 0 is nan, nan times anything is nan
float_mul(a, b) ==
    IF a = NaN \/ b = NaN THEN NaN
    ELSE IF a = Infinity \/ b = Infinity
         THEN IF a = 0 \/ b = 0 THEN NaN ELSE Infinity
         ELSE a * b

\* calc_col_1 = (avg_price * t_volume) / 10**7, held in ten-millionths: the
\* division moves the decimal point of a finite product and keeps inf and nan
calc_col_1(avg_price, t_volume) == float_mul(avg_price, t_volume)

(***************************************************************************)
(* Date strings. A string is told by the format it is written in and the   *)
(* calendar day it names: two strings are equal when both agree.           *)
(***************************************************************************)
\* datetime.strftime("%Y-%m-%d")
Iso(d) == [fmt |-> "iso", d |-> d]
\* the provider's DD-Mon-YYYY form, which run_csv parses with "%d-%b-%Y"
Dmy(d) == [fmt |-> "dmy", d |-> d]
\* the empty string
EmptyStr == [fmt |-> "empty", d |-> 0]
\* the key is not in the object
NoKey == [fmt |-> "missing", d |-> 0]

\* datetime.strftime("%A")
strftimeA(dt) == DayNames[weekday(dt) + 1]

(***************************************************************************)
(* One item of the "stocks" list of a quote-derivative payload             *)
(***************************************************************************)
\* a well-formed option item
Item(strike, expiry, optType) ==
    [md |-> TRUE, identifier |-> <<"OPTIDX", "BANKNIFTY">>, instrumentType |-> "OPTIDX",
     lastPrice |-> Num(5), strike |-> strike, expiry |-> expiry, optType |-> optType,
     book |-> TRUE, trade |-> TRUE, other |-> TRUE,
     vmap |-> Num(4), vol |-> Num(3),
     bid |-> "one", bidQty |-> Num(2), bidPrice |-> Num(1)]

NoneTicker == "None"

\* the row one item yields in day_excel.process_data and
\* run.no_shorting_old.process_data (the two bodies are the same text);
\* ok is FALSE when building it raises (KeyError, IndexError, ValueError)
QuoteRow(item, key) ==
    IF \/ ~item.md \/ ~item.book \/ ~item.trade \/ ~item.other
       \/ item.bid = "empty"
       \/ \E v \in {item.vmap, item.lastPrice, item.strike} : ~CoalesceFloat(v).ok
       \/ ~Coalesce(item.vol).ok
       \/ item.bid = "one" /\ (~Coalesce(item.bidQty).ok \/ ~CoalesceFloat(item.bidPrice).ok)
    THEN [ok |-> FALSE, rows |-> <<>>]
    ELSE LET avg_price == CoalesceFloat(item.vmap).v
             t_volume == Coalesce(item.vol).v
         IN [ok |-> TRUE,
             rows |-> <<[ticker |-> IF key = "NIFTY_FUTURES" THEN "NIFTY"
                                    ELSE IF Len(item.identifier) >= 2
                                         THEN item.identifier[2] ELSE NoneTicker,
                         ltp |-> CoalesceFloat(item.lastPrice).v,
                         bidQty |-> IF item.bid = "one" THEN Coalesce(item.bidQty).v ELSE 0,
                         bid |-> IF item.bid = "one" THEN CoalesceFloat(item.bidPrice).v ELSE 0,
                         avg |-> avg_price, vol |-> t_volume,
                         strike |-> CoalesceFloat(item.strike).v,
                         expiry |-> IF item.expiry = NoKey THEN EmptyStr ELSE item.expiry,
                         optType |-> IF item.optType = "missing" THEN "" ELSE item.optType,
                         calc |-> calc_col_1(avg_price, t_volume)]>>]

QuoteRowsSkippingUnparsed(items, key) ==
    LET kept == SelectSeq(items, LAMBDA item : Len(item.identifier) >= 2)
    IN  IF \A i \in DOMAIN kept : QuoteRow(kept[i], key).ok
        THEN [ok |-> TRUE, rows |-> [i \in DOMAIN kept |-> QuoteRow(kept[i], key).rows[1]]]
        ELSE [ok |-> FALSE, rows |-> <<>>]

\* the for loop over the items: the rows in payload order, or the exception
RECURSIVE QuoteRows(_, _)
QuoteRows(items, key) ==
    IF items = <<>> THEN [ok |-> TRUE, rows |-> <<>>]
    ELSE LET first == QuoteRow(Head(items), key)
             rest == QuoteRows(Tail(items), key)
         IN  IF first.ok /\ rest.ok
             THEN [ok |-> TRUE, rows |-> first.rows \o rest.rows]
             ELSE [ok |-> FALSE, rows |-> <<>>]

(***************************************************************************)
(* Payloads: what response.json() returned. shape is "stocks" (an object   *)
(* with a "stocks" list), "nostocks" (an object with other keys only),     *)
(* "emptydict" ({}), "list" (a non-empty array), "stocksnull" ("stocks" is *)
(* null); "None" is fetch_data's failure value.                            *)
(***************************************************************************)
NonePayload == [shape |-> "None", items |-> <<>>]
Payload(shape, items) == [shape |-> shape, items |-> items]

\* Python truth value of data
Truthy(data) == data.shape \notin {"None", "emptydict"}

\* data.get("stocks", []) followed by iteration: AttributeError on an array,
\* TypeError on null
Stocks(data) ==
    CASE data.shape = "stocks" -> [ok |-> TRUE, items |-> data.items]
      [] data.shape \in {"nostocks", "emptydict"} -> [ok |-> TRUE, items |-> <<>>]
      [] OTHER -> [ok |-> FALSE, items |-> <<>>]

\* an HTTP exchange: kind is "ok" (status 200, body decodes), "status" (any
\* other status), "neterr" (requests raised), "badjson" (response.json() raised)
Response(kind, body) == [kind |-> kind, body |-> body]

\* fetch_data: the same text in day_excel, run.no_shorting_old and run_csv
fetch_data(resp) == IF resp.kind = "ok" THEN resp.body ELSE NonePayload

\* the sequences over S of length at most n
RECURSIVE SeqsUpTo(_, _)
SeqsUpTo(S, n) ==
    IF n = 0 THEN {<<>>}
    ELSE LET shorter == SeqsUpTo(S, n - 1)
         IN shorter \cup {Append(q, x) : q \in shorter, x \in S}

(***************************************************************************)
(* day_excel: nearest-expiry filter                                        *)
(***************************************************************************)
ExpiryStrictlyFuture(t) == Iso(t.day + ((3 - weekday(t) - 1) % 7) + 1)

\* day_excel.run line 151: (now + timedelta((3 - now.weekday()) % 7)) as %Y-%m-%d
nearest_expiry(t) == Iso(t.day + ((3 - weekday(t)) % 7))

FilterIgnoringExpiry(rows, expiry_date) == rows

FilterByCalendarDay(rows, expiry_date) ==
    SelectSeq(rows, LAMBDA row : row.expiry.fmt \in {"iso", "dmy"} /\ row.expiry.d = expiry_date.d)

\* day_excel.filter_expiry_date
filter_expiry_date(rows, expiry_date) ==
    SelectSeq(rows, LAMBDA row : row.expiry = expiry_date)

\* day_excel.process_data
de_process_data(data, key, expiry_date) ==
    LET stocks == Stocks(data)
        built == QuoteRows(stocks.items, key)
    IN  IF stocks.ok /\ built.ok
        THEN [ok |-> TRUE, rows |-> filter_expiry_date(built.rows, expiry_date)]
        ELSE [ok |-> FALSE, rows |-> <<>>]

(***************************************************************************)
(* Sinks                                                                   *)
(***************************************************************************)
DataSources == <<"BANKNIFTY_FUTURES", "NIFTY_FUTURES">>
Keys == {DataSources[i] : i \in 1..Len(DataSources)}
Days == {DayNames[i] : i \in 1..Len(DayNames)}
Partitions == Days \X Keys \X {"xlsx", "csv"}

WriteAppending(fs, path, rows) ==
    [p \in DOMAIN fs \cup {path} |->
        IF p = path THEN (IF p \in DOMAIN fs THEN fs[p] ELSE <<>>) \o rows ELSE fs[p]]

\* DataFrame.to_excel(file_path) and DataFrame.to_csv(file_path): the file is
\* created or replaced. files maps each path that exists to the data rows of
\* its table (a file with the header line only holds <<>>)
Write(fs, path, rows) ==
    [p \in DOMAIN fs \cup {path} |-> IF p = path THEN rows ELSE fs[p]]

\* DataFrame.sort_values(by="Strike Price"): ascending, ties in payload order
RECURSIVE InsertByStrike(_, _)
InsertByStrike(r, sorted) ==
    IF sorted = <<>> THEN <<r>>
    ELSE IF r.strike < Head(sorted).strike THEN <<r>> \o sorted
         ELSE <<Head(sorted)>> \o InsertByStrike(r, Tail(sorted))

RECURSIVE SortByStrike(_)
SortByStrike(rows) ==
    IF rows = <<>> THEN <<>>
    ELSE InsertByStrike(rows[Len(rows)], SortByStrike(SubSeq(rows, 1, Len(rows) - 1)))

\* day_excel.save_to_excel: the files after the call
de_save_to_excel(fs, rows, key, day_name) ==
    IF rows = <<>> THEN fs
    ELSE Write(fs, <<day_name, key, "xlsx">>, SortByStrike(rows))

\* day_excel.save_to_db: the table after the call
save_to_db(table, rows) == IF rows = <<>> THEN table ELSE table \o rows

\* an output directory that holds no snapshot file yet
NoFiles == [p \in {} |-> <<>>]

\* run.no_shorting_old.save_to_excel at time t: the files after the call
ol_save_to_excel(fs, rows, key, t) ==
    IF rows = <<>> THEN fs
    ELSE Write(fs, <<strftimeA(t), key, "xlsx">>, rows)

SaveEmptyFrameToo(fs, rows, key, t) == Write(fs, <<strftimeA(t), key, "csv">>, rows)

\* run_csv.save_to_csv at time t, df holding rows: the files after the call
save_to_csv(fs, rows, key, t) ==
    IF rows = <<>> THEN fs
    ELSE Write(fs, <<strftimeA(t), key, "csv">>, rows)

ResetDaysButThursday == {"Monday", "Tuesday", "Wednesday"}

\* the loops of cleanup_and_initialize over the days and the keys
ResetDays == {"Monday", "Tuesday", "Wednesday", "Thursday"}
ResetPaths == {<<day, key, "xlsx">> : day \in ResetDays, key \in Keys}

\* current_day == "Friday" and current_time == "09:15": strftime("%H:%M")
\* is "09:15" through the whole minute
CleanupDue(t) == strftimeA(t) = "Friday" /\ t.hour = 9 /\ t.minute = 15

\* run.no_shorting_old.cleanup_and_initialize at time t: the files after
\* the call
cleanup_and_initialize(fs, t) ==
    IF CleanupDue(t)
    THEN [p \in DOMAIN fs \cup ResetPaths |-> IF p \in ResetPaths THEN <<>> ELSE fs[p]]
    ELSE fs

NoInput == [data |-> NonePayload, key |-> "none", expiry_date |-> NoKey]
\* the normalizer has not been applied yet
NoOutput == [ok |-> FALSE, rows |-> <<>>, pending |-> TRUE]

\* the timeout of a request sent with no timeout argument (there is none)
\* and of one sent with timeout=seconds
NoTimeout == {}
TimeoutOf(seconds) == {seconds}

\* no request is in flight
NoRequest == [what |-> "none", timeout |-> NoTimeout, waited |-> 0]
NoFetches == [key \in Keys |-> 0]

NoStep == [key |-> "none", kind |-> "none", before |-> NoFiles]
NoReqs == [key \in Keys |-> <<>>]

NoCall == [op |-> "none", path |-> <<>>, rows |-> <<>>, hadPrev |-> FALSE,
           prev |-> <<>>, at |-> DateTime(0, 0, 0), before |-> NoFiles]

(***************************************************************************)
(* day_excel.run: the polling loop                                         *)
(***************************************************************************)
\* requests.get(..., timeout=10): seconds a fetch may take
Timeout == 10
\* time.sleep(50)
DaySleepSec == 50

\* the Thursdays an item of a payload may expire on
ExpiryDays == {d \in 0..(NumDays + 6) : d % 7 = 3}

\* items the provider may send to day_excel: options and futures (strike 0)
\* of each expiry, and an item without its "metadata" object
DayItems ==
    {Item(Num(k), Iso(3), "CE") : k \in {0, 100}}
        \cup {Item(Num(100), Iso(d), "CE") : d \in ExpiryDays}
        \cup {[Item(Num(100), Iso(3), "CE") EXCEPT !.md = FALSE]}

DayResponses ==
    {Response("ok", Payload("stocks", q)) : q \in SeqsUpTo(DayItems, MaxItems)}
        \cup {Response("ok", Payload(sh, <<>>)) : sh \in {"nostocks", "emptydict"}}
        \cup {Response(k, NonePayload) : k \in {"status", "neterr", "badjson"}}

DayClock ==
    {DateTime(d, s, 0) : d \in 0..(NumDays - 1),
                         s \in {OpenSec - Margin, OpenSec, CloseDaySec, CloseDaySec + Margin}}

\* what fetch_data and process_data can come to for source key on calendar
\* day d: whether data is truthy, whether process_data returned, and its rows
DayOutcomes ==
    [key \in Keys, d \in 0..(NumDays - 1) |->
        {LET data == fetch_data(resp)
             processed == de_process_data(data, key, nearest_expiry(DateTime(d, 0, 0)))
         IN  [truthy |-> Truthy(data), ok |-> processed.ok, rows |-> processed.rows]
           : resp \in DayResponses}]

NoExpiry == [set |-> FALSE, at |-> DateTime(0, 0, 0), value |-> NoKey]

\* the for loop of run moves to the next source, or the loop body ends
DayAdvance ==
    IF de_src < Len(DataSources)
    THEN de_src' = de_src + 1 /\ de_pc' = "fetch"
    ELSE de_src' = 1 /\ de_pc' = "sleep"

\* line 147: if self.is_trading_hour()
DayGate ==
    /\ de_pc = "gate"
    /\ gate' = [fn |-> "is_trading_hour", at |-> now, open |-> is_trading_hour(now)]
    /\ de_pc' = IF is_trading_hour(now) THEN "fetch" ELSE "sleep"
    /\ de_src' = 1
    /\ UNCHANGED <<clockVars, sinkVars, de_expiry, dayIdle>>

\* lines 149-157, the body of the for loop for one source: fetch_data, which
\* takes up to the timeout; with data, expiry_date, process_data,
\* save_to_excel and save_to_db. An exception of process_data is not caught
\* and ends the script.
DaySource ==
    /\ de_pc = "fetch"
    /\ \E t \in DayClock :
        /\ DateTimeLe(now, t) /\ Epoch(t) <= Epoch(now) + Timeout
        /\ now' = t
        /\ \E out \in DayOutcomes[DataSources[de_src], t.day] :
            IF ~out.truthy
            THEN DayAdvance /\ UNCHANGED <<sinkVars, de_expiry>>
            ELSE /\ de_expiry' = [set |-> TRUE, at |-> t, value |-> nearest_expiry(t)]
                 /\ IF out.ok
                    THEN /\ files' = de_save_to_excel(files, out.rows, DataSources[de_src],
                                                      strftimeA(t))
                         /\ db' = save_to_db(db, out.rows)
                         /\ Len(db') <= MaxDbRows
                         /\ DayAdvance
                    ELSE /\ de_pc' = "crashed"
                         /\ UNCHANGED <<sinkVars, de_src>>
    /\ UNCHANGED <<gateVars, dayIdle>>

\* line 160: time.sleep(50), which returns no sooner than 50 seconds later;
\* the loop is followed to the end of the week the clock ranges over
DaySleep ==
    /\ de_pc = "sleep"
    /\ \E t \in DayClock :
        /\ Epoch(t) >= Epoch(now) + DaySleepSec
        /\ now' = t
    /\ de_pc' = "gate"
    /\ gate' = NoGate
    /\ de_expiry' = NoExpiry
    /\ UNCHANGED <<sinkVars, de_src, dayIdle>>

NextDay == DayGate \/ DaySource \/ DaySleep

\* the script is started at any time, in an empty output directory
InitDay ==
    /\ now \in DayClock
    /\ gate = NoGate
    /\ files = NoFiles
    /\ db = <<>>
    /\ de_pc = "gate"
    /\ de_src = 1
    /\ de_expiry = NoExpiry
    /\ sv_call = NoCall
    /\ sv_last = NoFiles
    /\ sv_saves = 0
    /\ ol_pc = "cleanup"
    /\ ol_src = 1
    /\ ol_step = NoStep
    /\ ol_reqs = NoReqs
    /\ ol_reset = FALSE
    /\ ra_pc = "gate"
    /\ ra_i = 1
    /\ ra_procs = <<>>
    /\ ra_prev = <<>>
    /\ nm_fn = "none"
    /\ nm_in = NoInput
    /\ nm_out = NoOutput
    /\ cs_pc = "start"
    /\ cs_src = 1
    /\ cs_call = NoRequest
    /\ cs_shake = "none"
    /\ cs_reqs = NoFetches
    /\ cs_runs = 1
    /\ cs_failed = FALSE
    /\ db_given = <<>>
    /\ db_conn = {}
    /\ tk_pc = "verify_client_id"
    /\ tk_calls = <<>>
    /\ tk_results = <<>>
    /\ tk_file = <<>>

SpecDay == InitDay /\ [][NextDay]_vars

(***************************************************************************)
(* SpecSink: the snapshot sinks of the three scripts and the weekly reset, *)
(* called at any time with any rows, on an output directory that is empty  *)
(* or holds the files an earlier week left                                 *)
(***************************************************************************)
\* rows as process_data builds them
SinkRow(strike) == QuoteRow(Item(Num(strike), Iso(3), "CE"), "BANKNIFTY_FUTURES").rows[1]

\* the row sets a save call is given: none, one, and two in descending strike
SinkRowSeqs == {<<>>, <<SinkRow(100)>>, <<SinkRow(200), SinkRow(100)>>}

\* what a week of run.no_shorting_old, which polls on every day of the week,
\* leaves behind: one snapshot per day and key
StaleWeek == [p \in Days \X Keys \X {"xlsx"} |-> <<SinkRow(50)>>]

\* the reset's boundary minute on Friday, the seconds on either side of it,
\* and noon of the days before and after
BoundarySec == 9 * 3600 + 15 * 60
SinkClock ==
    {DateTime(d, 12 * 3600, 0) : d \in {3, 5}}
        \cup {DateTime(4, s, 0) : s \in {BoundarySec - Margin, BoundarySec,
                                         BoundarySec + 59, BoundarySec + 59 + Margin}}

InitSink ==
    /\ now \in SinkClock
    /\ gate = NoGate
    /\ files \in {NoFiles, StaleWeek}
    /\ db = <<>>
    /\ de_pc = "gate"
    /\ de_src = 1
    /\ de_expiry = NoExpiry
    /\ sv_call = NoCall
    /\ sv_last = NoFiles
    /\ sv_saves = 0
    /\ ol_pc = "cleanup"
    /\ ol_src = 1
    /\ ol_step = NoStep
    /\ ol_reqs = NoReqs
    /\ ol_reset = FALSE
    /\ ra_pc = "gate"
    /\ ra_i = 1
    /\ ra_procs = <<>>
    /\ ra_prev = <<>>
    /\ nm_fn = "none"
    /\ nm_in = NoInput
    /\ nm_out = NoOutput
    /\ cs_pc = "start"
    /\ cs_src = 1
    /\ cs_call = NoRequest
    /\ cs_shake = "none"
    /\ cs_reqs = NoFetches
    /\ cs_runs = 1
    /\ cs_failed = FALSE
    /\ db_given = <<>>
    /\ db_conn = {}
    /\ tk_pc = "verify_client_id"
    /\ tk_calls = <<>>
    /\ tk_results = <<>>
    /\ tk_file = <<>>

SinkTick ==
    /\ \E t \in SinkClock : Before(now, t) /\ now' = t
    /\ sv_call' = NoCall
    /\ UNCHANGED <<files, sv_last, sv_saves, sinkIdle>>

\* the bookkeeping of one save call for file path
Saved(op, path, rows) ==
    /\ sv_saves < MaxSaves
    /\ sv_saves' = sv_saves + 1
    /\ sv_call' = [op |-> op, path |-> path, rows |-> rows,
                   hadPrev |-> path \in DOMAIN sv_last,
                   prev |-> IF path \in DOMAIN sv_last THEN sv_last[path] ELSE <<>>,
                   at |-> now, before |-> files]
    /\ sv_last' = Write(sv_last, path, rows)
    /\ UNCHANGED <<clockVars, sinkIdle>>

SinkSaveCsv ==
    \E rows \in SinkRowSeqs, key \in Keys :
        /\ files' = save_to_csv(files, rows, key, now)
        /\ Saved("save_to_csv", <<strftimeA(now), key, "csv">>, rows)

SinkSaveExcelOld ==
    \E rows \in SinkRowSeqs, key \in Keys :
        /\ files' = ol_save_to_excel(files, rows, key, now)
        /\ Saved("save_to_excel", <<strftimeA(now), key, "xlsx">>, rows)

SinkSaveExcelDay ==
    \E rows \in SinkRowSeqs, key \in Keys :
        /\ files' = de_save_to_excel(files, rows, key, strftimeA(now))
        /\ Saved("save_to_excel", <<strftimeA(now), key, "xlsx">>, rows)

SinkCleanup ==
    /\ files' = cleanup_and_initialize(files, now)
    /\ sv_call' = [NoCall EXCEPT !.op = "cleanup_and_initialize", !.at = now,
                                 !.before = files]
    /\ UNCHANGED <<clockVars, sv_last, sv_saves, sinkIdle>>

NextSink ==
    SinkTick \/ SinkSaveCsv \/ SinkSaveExcelOld \/ SinkSaveExcelDay \/ SinkCleanup

SpecSink == InitSink /\ [][NextSink]_vars

(***************************************************************************)
(* run.no_shorting_old.run: the ungated polling loop with the weekly reset *)
(***************************************************************************)
\* time.sleep(60)
OldSleepSec == 60

FetchDataIgnoringStatus(resp) ==
    IF resp.kind \in {"ok", "status"} THEN resp.body ELSE NonePayload

\* run.no_shorting_old.fetch_data: the body of a 200 response that decodes,
\* None for any other status and for any exception of the request or of json()
ol_fetch_data(resp) == IF resp.kind = "ok" THEN resp.body ELSE NonePayload

\* run.no_shorting_old.process_data
ol_process_data(data, key) ==
    LET stocks == Stocks(data)
        built == QuoteRows(stocks.items, key)
    IN  IF stocks.ok /\ built.ok
        THEN [ok |-> TRUE, rows |-> built.rows]
        ELSE [ok |-> FALSE, rows |-> <<>>]

\* items the provider may send: a well-formed one, one whose optional fields
\* are missing or null, one without "metadata", one with a non-numeric
\* average price, one with an empty list of bid levels
GoodItem == Item(Num(100), Iso(3), "CE")
BareItem == [Item(Missing, NoKey, "missing") EXCEPT !.vmap = Null, !.vol = Missing, !.bid = "absent"]
NoMetadataItem == [GoodItem EXCEPT !.md = FALSE]
BadNumberItem == [GoodItem EXCEPT !.vmap = BadStr]
NoBidLevelItem == [GoodItem EXCEPT !.bid = "empty"]

\* bodies of a response, whatever the status they come with
OldBodies ==
    {Payload("stocks", q) : q \in {<<>>, <<GoodItem>>, <<GoodItem, BareItem>>, <<NoMetadataItem>>,
                                   <<GoodItem, BadNumberItem>>, <<NoBidLevelItem>>}}
        \cup {Payload(sh, <<>>) : sh \in {"nostocks", "emptydict", "list", "stocksnull"}}

OldResponses ==
    {Response(k, body) : k \in {"ok", "status"}, body \in OldBodies}
        \cup {Response(k, NonePayload) : k \in {"neterr", "badjson"}}

\* what one pass of the loop body can come to for source key: the kind of
\* response, whether data is truthy, whether process_data returned, its rows
OldOutcomes ==
    [key \in Keys |->
        {LET data == ol_fetch_data(resp)
             processed == ol_process_data(data, key)
         IN  [kind |-> resp.kind, truthy |-> Truthy(data),
              ok |-> processed.ok, rows |-> processed.rows]
           : resp \in OldResponses}]

\* seconds a fetch may take, up to the timeout
FetchSeconds == {0, 1, Timeout}

\* the loop is followed from the minute before the reset's boundary minute
\* to the minute after it
OldStart == {DateTime(4, s, 0) : s \in {BoundarySec - OldSleepSec - Margin,
                                        BoundarySec - OldSleepSec, BoundarySec - Margin}}
OldEnd == BoundarySec + 2 * OldSleepSec

\* t, s seconds later
Later(t, s) == DateTime(t.day, SecOfDay(t) + s, t.us)

InitOld ==
    /\ now \in OldStart
    /\ gate = NoGate
    /\ files \in {NoFiles, StaleWeek}
    /\ db = <<>>
    /\ de_pc = "gate"
    /\ de_src = 1
    /\ de_expiry = NoExpiry
    /\ sv_call = NoCall
    /\ sv_last = NoFiles
    /\ sv_saves = 0
    /\ ol_pc = "cleanup"
    /\ ol_src = 1
    /\ ol_step = NoStep
    /\ ol_reqs = NoReqs
    /\ ol_reset = FALSE
    /\ ra_pc = "gate"
    /\ ra_i = 1
    /\ ra_procs = <<>>
    /\ ra_prev = <<>>
    /\ nm_fn = "none"
    /\ nm_in = NoInput
    /\ nm_out = NoOutput
    /\ cs_pc = "start"
    /\ cs_src = 1
    /\ cs_call = NoRequest
    /\ cs_shake = "none"
    /\ cs_reqs = NoFetches
    /\ cs_runs = 1
    /\ cs_failed = FALSE
    /\ db_given = <<>>
    /\ db_conn = {}
    /\ tk_pc = "verify_client_id"
    /\ tk_calls = <<>>
    /\ tk_results = <<>>
    /\ tk_file = <<>>

\* line 163: self.cleanup_and_initialize(), the first statement of an iteration
OldCleanup ==
    /\ ol_pc = "cleanup"
    /\ files' = cleanup_and_initialize(files, now)
    /\ ol_reset' = (ol_reset \/ CleanupDue(now))
    /\ ol_pc' = "fetch"
    /\ ol_src' = 1
    /\ ol_step' = NoStep
    /\ ol_reqs' = NoReqs
    /\ UNCHANGED <<clockVars, oldIdle>>

\* the for loop of run moves to the next source, or the loop body ends
OldAdvance ==
    IF ol_src < Len(DataSources)
    THEN ol_src' = ol_src + 1 /\ ol_pc' = "fetch"
    ELSE ol_src' = 1 /\ ol_pc' = "sleep"

\* lines 165-172, the body of the for loop for one source: fetch_data, which
\* takes up to the timeout; with data, process_data and save_to_excel. An
\* exception of process_data is not caught and ends the script.
OldSource ==
    /\ ol_pc = "fetch"
    /\ \E d \in FetchSeconds, out \in OldOutcomes[DataSources[ol_src]] :
        /\ now' = Later(now, d)
        /\ ol_step' = [key |-> DataSources[ol_src], kind |-> out.kind, before |-> files]
        /\ IF ~out.truthy THEN OldAdvance /\ UNCHANGED files
           ELSE IF out.ok
                THEN /\ files' = ol_save_to_excel(files, out.rows, DataSources[ol_src],
                                                  Later(now, d))
                     /\ OldAdvance
                ELSE /\ ol_pc' = "crashed"
                     /\ UNCHANGED <<files, ol_src>>
        /\ ol_reqs' = [ol_reqs EXCEPT ![DataSources[ol_src]] = Append(@, out.kind)]
    /\ UNCHANGED <<ol_reset, oldIdle>>

\* line 174: time.sleep(60)
OldSleep ==
    /\ ol_pc = "sleep"
    /\ SecOfDay(now) + OldSleepSec <= OldEnd
    /\ now' = Later(now, OldSleepSec)
    /\ ol_pc' = "cleanup"
    /\ UNCHANGED <<files, ol_src, ol_step, ol_reqs, ol_reset, oldIdle>>

NextOld == OldCleanup \/ OldSource \/ OldSleep

SpecOld == InitOld /\ [][NextOld]_vars

(***************************************************************************)
(* run_all: the orchestrator that runs every script of the scripts folder  *)
(* in a process of its own, waits for all of them, sleeps, and repeats     *)
(***************************************************************************)
\* time.sleep(50) after a cycle, time.sleep(60) outside the time range
AllSleepSec == 50
AllWaitSec == 60

\* what os.listdir may find in the scripts folder, in the order it lists it
PyFiles == {"run_csv.py", "run_excel.py"}
Listings ==
    {<<>>, <<"notes.txt">>, <<"run_csv.py">>, <<"notes.txt", "run_csv.py">>,
     <<"run_csv.py", "run_excel.py">>, <<"run_excel.py", "notes.txt", "run_csv.py">>}

\* filename.endswith(".py")
endswith_py(filename) == filename \in PyFiles

\* multiprocessing.Process(target=run_script, args=(script,)): not started
Process(script) == [script |-> script, st |-> "created", result |-> "none", log |-> "none"]

\* how the script run by subprocess.run ends: exit status 0, another exit
\* status (a crash of the script among them), or subprocess.run itself raises
ScriptResults == {"ok", "nonzero", "raised"}

RunScriptUncaught(result) == IF result = "ok" THEN "success" ELSE "none"

\* run_script: what it prints for the way the script ended. check_returncode
\* raises CalledProcessError for a non-zero status; both except clauses
\* print and return, so the process ends normally in every case
run_script(result) ==
    CASE result = "ok" -> "success"
      [] result = "nonzero" -> "error"
      [] OTHER -> "unexpected"

JoinWithoutWaiting(p) == TRUE

\* process.join() returns once the process has ended, however it ended
join(p) == p.st = "exited"

\* the times at which the orchestrator's clock is read
AllClock ==
    {DateTime(0, s, 0) : s \in {OpenSec - Margin, OpenSec, OpenSec + AllSleepSec,
                                OpenSec + 2 * AllSleepSec, CloseAllSec, CloseAllSec + Margin}}
        \cup {DateTime(5, 12 * 3600, 0)}

InitAll ==
    /\ now \in AllClock
    /\ gate = NoGate
    /\ files = NoFiles
    /\ db = <<>>
    /\ de_pc = "gate"
    /\ de_src = 1
    /\ de_expiry = NoExpiry
    /\ sv_call = NoCall
    /\ sv_last = NoFiles
    /\ sv_saves = 0
    /\ ol_pc = "cleanup"
    /\ ol_src = 1
    /\ ol_step = NoStep
    /\ ol_reqs = NoReqs
    /\ ol_reset = FALSE
    /\ ra_pc = "gate"
    /\ ra_i = 1
    /\ ra_procs = <<>>
    /\ ra_prev = <<>>
    /\ nm_fn = "none"
    /\ nm_in = NoInput
    /\ nm_out = NoOutput
    /\ cs_pc = "start"
    /\ cs_src = 1
    /\ cs_call = NoRequest
    /\ cs_shake = "none"
    /\ cs_reqs = NoFetches
    /\ cs_runs = 1
    /\ cs_failed = FALSE
    /\ db_given = <<>>
    /\ db_conn = {}
    /\ tk_pc = "verify_client_id"
    /\ tk_calls = <<>>
    /\ tk_results = <<>>
    /\ tk_file = <<>>

\* line 47: if is_within_time_range(start_time, end_time)
AllGate ==
    /\ ra_pc = "gate"
    /\ ra_pc' = IF is_within_time_range(ra_start_time, ra_end_time, now) THEN "scan" ELSE "wait"
    /\ UNCHANGED <<clockVars, ra_i, ra_procs, ra_prev, allIdle>>

\* lines 50-68: the scripts folder is listed, which raises if it is not
\* there; with no .py file the loop is left; otherwise one process per script
AllScan ==
    /\ ra_pc = "scan"
    /\ \/ /\ ra_pc' = "crashed"
          /\ UNCHANGED <<ra_i, ra_procs, ra_prev>>
       \/ \E listing \in Listings :
            LET scripts == SelectSeq(listing, endswith_py)
            IN  IF scripts = <<>>
                THEN /\ ra_pc' = "done"
                     /\ UNCHANGED <<ra_i, ra_procs, ra_prev>>
                ELSE /\ ra_pc' = "start"
                     /\ ra_i' = 1
                     /\ ra_procs' = [k \in 1..Len(scripts) |-> Process(scripts[k])]
                     /\ ra_prev' = ra_procs
    /\ UNCHANGED <<clockVars, allIdle>>

\* lines 72-73: for process in processes: process.start()
AllStart ==
    /\ ra_pc = "start"
    /\ ra_procs' = [ra_procs EXCEPT ![ra_i].st = "running"]
    /\ IF ra_i < Len(ra_procs)
       THEN ra_i' = ra_i + 1 /\ ra_pc' = "start"
       ELSE ra_i' = 1 /\ ra_pc' = "join"
    /\ UNCHANGED <<clockVars, ra_prev, allIdle>>

\* lines 76-77: for process in processes: process.join()
AllJoin ==
    /\ ra_pc = "join"
    /\ join(ra_procs[ra_i])
    /\ IF ra_i < Len(ra_procs)
       THEN ra_i' = ra_i + 1 /\ ra_pc' = "join"
       ELSE ra_i' = 1 /\ ra_pc' = "sleep"
    /\ UNCHANGED <<clockVars, ra_procs, ra_prev, allIdle>>

\* a started process after run_script returned
Ended(p, result) == [p EXCEPT !.st = "exited", !.result = result, !.log = run_script(result)]

\* a running process of the current cycle runs run_script to its end
WorkerExit(k) ==
    /\ ra_procs[k].st = "running"
    /\ \E result \in ScriptResults : ra_procs' = [ra_procs EXCEPT ![k] = Ended(@, result)]
    /\ UNCHANGED <<clockVars, ra_pc, ra_i, ra_prev, allIdle>>

\* line 83: time.sleep(50) after the joins
AllSleep ==
    /\ ra_pc = "sleep"
    /\ \E t \in AllClock :
        /\ Epoch(t) >= Epoch(now) + AllSleepSec
        /\ now' = t
    /\ ra_pc' = "gate"
    /\ UNCHANGED <<ra_i, ra_procs, ra_prev, allIdle>>

\* line 89: time.sleep(60) outside the time range
AllWait ==
    /\ ra_pc = "wait"
    /\ \E t \in AllClock :
        /\ Epoch(t) >= Epoch(now) + AllWaitSec
        /\ now' = t
    /\ ra_pc' = "gate"
    /\ UNCHANGED <<ra_i, ra_procs, ra_prev, allIdle>>

Workers == \E k \in DOMAIN ra_procs : WorkerExit(k)

NextAll == AllGate \/ AllScan \/ AllStart \/ AllJoin \/ AllSleep \/ AllWait \/ Workers

SpecAll == InitAll /\ [][NextAll]_vars

\* the orchestrator and every started process keep being scheduled
FairSpecAll ==
    /\ InitAll
    /\ [][NextAll]_vars
    /\ WF_vars(AllGate \/ AllScan \/ AllStart \/ AllJoin \/ AllSleep \/ AllWait)
    /\ \A k \in 1..Cardinality(PyFiles) : WF_vars(k \in DOMAIN ra_procs /\ WorkerExit(k))

(***************************************************************************)
(* SpecGate: the two gates applied to an arbitrary clock                   *)
(***************************************************************************)
InitGate ==
    /\ now \in GateClock
    /\ gate = NoGate
    /\ files = NoFiles
    /\ db = <<>>
    /\ de_pc = "gate"
    /\ de_src = 1
    /\ de_expiry = NoExpiry
    /\ sv_call = NoCall
    /\ sv_last = NoFiles
    /\ sv_saves = 0
    /\ ol_pc = "cleanup"
    /\ ol_src = 1
    /\ ol_step = NoStep
    /\ ol_reqs = NoReqs
    /\ ol_reset = FALSE
    /\ ra_pc = "gate"
    /\ ra_i = 1
    /\ ra_procs = <<>>
    /\ ra_prev = <<>>
    /\ nm_fn = "none"
    /\ nm_in = NoInput
    /\ nm_out = NoOutput
    /\ cs_pc = "start"
    /\ cs_src = 1
    /\ cs_call = NoRequest
    /\ cs_shake = "none"
    /\ cs_reqs = NoFetches
    /\ cs_runs = 1
    /\ cs_failed = FALSE
    /\ db_given = <<>>
    /\ db_conn = {}
    /\ tk_pc = "verify_client_id"
    /\ tk_calls = <<>>
    /\ tk_results = <<>>
    /\ tk_file = <<>>

\* time passes; the caller has consumed the value the gate returned
TickGate ==
    /\ \E t \in GateClock : Before(now, t) /\ now' = t
    /\ gate' = NoGate
    /\ UNCHANGED gateIdle

\* one call of day_excel's gate
CallIsTradingHour ==
    /\ gate' = [fn |-> "is_trading_hour", at |-> now, open |-> is_trading_hour(now)]
    /\ UNCHANGED <<clockVars, gateIdle>>

\* one call of run_all's gate
CallIsWithinTimeRange ==
    /\ gate' = [fn |-> "is_within_time_range", at |-> now,
                open |-> is_within_time_range(ra_start_time, ra_end_time, now)]
    /\ UNCHANGED <<clockVars, gateIdle>>

NextGate == TickGate \/ CallIsTradingHour \/ CallIsWithinTimeRange

SpecGate == InitGate /\ [][NextGate]_vars

(***************************************************************************)
(* SpecNorm: the normalizers of the scripts applied to payloads            *)
(***************************************************************************)
\* items a payload may hold: two expiries out of strike order, a zero
\* strike, a numeric string, an identifier without a space, no bid levels,
\* an empty list of bid levels, optional fields missing, ISO expiry
\* strings, and two items on which building the row raises
NormItems ==
    {Item(Num(200), Dmy(33), "PE"),
     Item(Num(100), Dmy(30), "PE"),
     Item(Num(100), Dmy(30), "CE"),
     Item(Num(0), Dmy(30), "CE"),
     [Item(NumStr(100), Dmy(33), "CE") EXCEPT !.bid = "absent", !.identifier = <<"NIFTY25JANFUT">>],
     Item(Num(100), Iso(3), "CE"),
     Item(Num(50), Iso(3), "PE"),
     Item(Num(100), Dmy(3), "CE"),
     [Item(Num(100), Dmy(30), "PE") EXCEPT !.vmap = Inf, !.vol = Num(0)],
     [Item(Num(100), Iso(3), "CE") EXCEPT !.vmap = Num(0)],
     BareItem, NoBidLevelItem, NoMetadataItem, BadNumberItem}

NormPayloads ==
    {Payload("stocks", q) : q \in SeqsUpTo(NormItems, MaxItems)}
        \cup {Payload(sh, <<>>) : sh \in {"nostocks", "list", "stocksnull"}}

(***************************************************************************)
(* run_csv: expiry selection and the explicit-expiry normalizer            *)
(***************************************************************************)
\* DD-Mon-YYYY strings compared as text: the day of the month comes first,
\* so day 33 (02-Feb) is before day 30 (30-Jan)
TextOrder(date) == [ok |-> date.fmt = "dmy", v |-> ((date.d - 1) % 31) * 12 + (date.d - 1) \div 31]

\* datetime.strptime(date, "%d-%b-%Y"), the sort key of run: the calendar
\* day; ValueError for a string in any other form
strptime_dbY(date) == [ok |-> date.fmt = "dmy", v |-> date.d]

\* lines 108-111: the distinct expiry strings of the payload's items,
\* sorted by strptime; reading them raises for a payload that is no object
\* with a list, for an item without "metadata" or "expiryDate", and for a
\* string strptime does not parse
expiry_dates(raw_data) ==
    LET stocks == Stocks(raw_data)
        items == stocks.items
        found == {items[i].expiry : i \in DOMAIN items}
    IN  IF \/ ~stocks.ok
           \/ \E i \in DOMAIN items : ~items[i].md \/ items[i].expiry = NoKey
           \/ \E date \in found : ~strptime_dbY(date).ok
        THEN [ok |-> FALSE, dates |-> {}, first |-> NoKey]
        ELSE [ok |-> TRUE, dates |-> found,
              first |-> IF found = {} THEN NoKey
                        ELSE CHOOSE date \in found :
                                \A other \in found :
                                    strptime_dbY(date).v <= strptime_dbY(other).v]

\* lines 44-82 for one item: no row for another expiry or a zero strike;
\* ok is FALSE when reading the item raises
CsvRow(item, expiry_date) ==
    IF ~item.md \/ item.expiry = NoKey THEN [ok |-> FALSE, rows |-> <<>>]
    ELSE IF item.expiry # expiry_date THEN [ok |-> TRUE, rows |-> <<>>]
    ELSE IF ~CoalesceFloat(item.strike).ok THEN [ok |-> FALSE, rows |-> <<>>]
    ELSE IF CoalesceFloat(item.strike).v = 0 THEN [ok |-> TRUE, rows |-> <<>>]
    ELSE IF \/ ~item.book \/ ~item.trade \/ ~item.other
            \/ item.bid = "empty" \/ item.optType = "missing"
            \/ \E v \in {item.vmap, item.lastPrice} : ~CoalesceFloat(v).ok
            \/ ~Coalesce(item.vol).ok
            \/ item.bid = "one" /\ (~Coalesce(item.bidQty).ok \/ ~CoalesceFloat(item.bidPrice).ok)
    THEN [ok |-> FALSE, rows |-> <<>>]
    ELSE LET avg_price == CoalesceFloat(item.vmap).v
             t_volume == Coalesce(item.vol).v
         IN [ok |-> TRUE,
             rows |-> <<[ticker |-> item.instrumentType,
                         ltp |-> CoalesceFloat(item.lastPrice).v,
                         bidQty |-> IF item.bid = "one" THEN Coalesce(item.bidQty).v ELSE 0,
                         bid |-> IF item.bid = "one" THEN CoalesceFloat(item.bidPrice).v ELSE 0,
                         avg |-> avg_price, vol |-> t_volume,
                         strike |-> CoalesceFloat(item.strike).v,
                         expiry |-> item.expiry,
                         optType |-> item.optType,
                         calc |-> calc_col_1(avg_price, t_volume)]>>]

\* the for loop of process_data over the items
RECURSIVE CsvRows(_, _)
CsvRows(items, expiry_date) ==
    IF items = <<>> THEN [ok |-> TRUE, rows |-> <<>>]
    ELSE LET first == CsvRow(Head(items), expiry_date)
             rest == CsvRows(Tail(items), expiry_date)
         IN  IF first.ok /\ rest.ok
             THEN [ok |-> TRUE, rows |-> first.rows \o rest.rows]
             ELSE [ok |-> FALSE, rows |-> <<>>]

\* "CE" sorts before "PE"
OptionTypeLe(a, b) == a = b \/ a = "CE"

\* the order of sort_values(by=['Strike Price', 'Option Type'])
StrikeTypeLe(a, b) ==
    a.strike < b.strike \/ (a.strike = b.strike /\ OptionTypeLe(a.optType, b.optType))

KeepOrder(rows) == rows

\* line 88: df.sort_values(by=['Strike Price', 'Option Type'],
\* ascending=[True, True]), a stable sort on the two columns
RECURSIVE sort_values(_)
sort_values(rows) ==
    IF rows = <<>> THEN <<>>
    ELSE LET r == rows[Len(rows)]
             sorted == sort_values(SubSeq(rows, 1, Len(rows) - 1))
             before == SelectSeq(sorted, LAMBDA x : StrikeTypeLe(x, r))
             after == SelectSeq(sorted, LAMBDA x : ~StrikeTypeLe(x, r))
         IN  before \o <<r>> \o after

\* run_csv.process_data
cs_process_data(data, expiry_date) ==
    LET stocks == Stocks(data)
        built == CsvRows(stocks.items, expiry_date)
    IN  IF stocks.ok /\ built.ok
        THEN [ok |-> TRUE, rows |-> sort_values(built.rows)]
        ELSE [ok |-> FALSE, rows |-> <<>>]

\* lines 108-118 of run for one source with truthy raw_data: the rows handed
\* to save_to_csv, none when the payload has no item
cs_select_and_process(raw_data) ==
    LET sorted == expiry_dates(raw_data)
    IN  IF ~sorted.ok THEN [ok |-> FALSE, rows |-> <<>>]
        ELSE IF sorted.dates = {} THEN [ok |-> TRUE, rows |-> <<>>]
        ELSE cs_process_data(raw_data, sorted.first)

(***************************************************************************)
(* SpecCsv: run_csv as run_all launches it, cycle after cycle: the warm-up *)
(* request of __init__, then one fetch per source                          *)
(***************************************************************************)
\* what a fetch of run_csv may be answered with
CsvResponses ==
    {Response("ok", Payload("stocks", q)) :
        q \in {<<>>, <<Item(Num(100), Dmy(30), "CE")>>, <<NoMetadataItem>>}}
        \cup {Response(k, NonePayload) : k \in {"status", "neterr", "badjson"}}

\* the clock at which run_csv names the day of its file
CsvClock == DateTime(0, 10 * 3600, 0)

InitCsv ==
    /\ now = CsvClock
    /\ gate = NoGate
    /\ files = NoFiles
    /\ db = <<>>
    /\ de_pc = "gate"
    /\ de_src = 1
    /\ de_expiry = NoExpiry
    /\ sv_call = NoCall
    /\ sv_last = NoFiles
    /\ sv_saves = 0
    /\ ol_pc = "cleanup"
    /\ ol_src = 1
    /\ ol_step = NoStep
    /\ ol_reqs = NoReqs
    /\ ol_reset = FALSE
    /\ ra_pc = "gate"
    /\ ra_i = 1
    /\ ra_procs = <<>>
    /\ ra_prev = <<>>
    /\ nm_fn = "none"
    /\ nm_in = NoInput
    /\ nm_out = NoOutput
    /\ cs_pc = "start"
    /\ cs_src = 1
    /\ cs_call = NoRequest
    /\ cs_shake = "none"
    /\ cs_reqs = NoFetches
    /\ cs_runs = 1
    /\ cs_failed = FALSE
    /\ db_given = <<>>
    /\ db_conn = {}
    /\ tk_pc = "verify_client_id"
    /\ tk_calls = <<>>
    /\ tk_results = <<>>
    /\ tk_file = <<>>

\* line 14: self.session.get('https://www.nseindia.com', headers=...), sent
\* with no timeout argument
CsvWarmup ==
    /\ cs_pc = "start"
    /\ cs_pc' = "warmup"
    /\ cs_call' = [what |-> "warmup", timeout |-> NoTimeout, waited |-> 0]
    /\ UNCHANGED <<clockVars, files, cs_src, cs_shake, cs_reqs, cs_runs, cs_failed, csvIdle>>

\* another second passes with no answer: a request with a timeout is given
\* up at the timeout, one without is waited for on and on
CsvWait ==
    /\ cs_call.what # "none"
    /\ \A seconds \in cs_call.timeout : cs_call.waited < seconds
    /\ cs_call.waited < MaxWait
    /\ cs_call' = [cs_call EXCEPT !.waited = @ + 1]
    /\ UNCHANGED <<clockVars, files, cs_pc, cs_src, cs_shake, cs_reqs, cs_runs, cs_failed, csvIdle>>

\* the warm-up request returns, whatever its status, or raises; __init__
\* has no try, so the exception ends the script before run is called
CsvWarmupEnds ==
    /\ cs_pc = "warmup"
    /\ \E raised \in BOOLEAN :
        /\ cs_shake' = IF raised THEN "failed" ELSE "ok"
        /\ cs_pc' = IF raised THEN "crashed" ELSE "fetch"
    /\ cs_call' = NoRequest
    /\ UNCHANGED <<clockVars, files, cs_src, cs_reqs, cs_runs, cs_failed, csvIdle>>

\* line 31: self.session.get(url, headers=self.headers, timeout=10)
CsvSend ==
    /\ cs_pc = "fetch"
    /\ cs_pc' = "fetching"
    /\ cs_call' = [what |-> DataSources[cs_src], timeout |-> TimeoutOf(Timeout), waited |-> 0]
    /\ cs_reqs' = [cs_reqs EXCEPT ![DataSources[cs_src]] = @ + 1]
    /\ UNCHANGED <<clockVars, files, cs_src, cs_shake, cs_runs, cs_failed, csvIdle>>

\* the for loop of run moves to the next source, or run returns
CsvAdvance ==
    IF cs_src < Len(DataSources)
    THEN cs_src' = cs_src + 1 /\ cs_pc' = "fetch"
    ELSE cs_src' = 1 /\ cs_pc' = "done"

\* lines 32-39 and 107-120: the answer to the fetch; with data, the expiry
\* selection, process_data and save_to_csv, whose exceptions end the script
CsvFetchEnds ==
    /\ cs_pc = "fetching"
    /\ \E resp \in CsvResponses :
        LET raw_data == fetch_data(resp)
            processed == cs_select_and_process(raw_data)
        IN  IF ~Truthy(raw_data) THEN CsvAdvance /\ UNCHANGED files
            ELSE IF processed.ok
                 THEN /\ files' = save_to_csv(files, processed.rows, DataSources[cs_src], now)
                      /\ CsvAdvance
                 ELSE /\ cs_pc' = "crashed"
                      /\ UNCHANGED <<files, cs_src>>
    /\ cs_call' = NoRequest
    /\ UNCHANGED <<clockVars, cs_shake, cs_reqs, cs_runs, cs_failed, csvIdle>>

\* run_all starts the script again in its next cycle
CsvRelaunch ==
    /\ cs_pc \in {"done", "crashed"}
    /\ cs_runs < MaxRuns
    /\ cs_runs' = cs_runs + 1
    /\ cs_failed' = (cs_failed \/ cs_shake = "failed")
    /\ cs_pc' = "start"
    /\ cs_src' = 1
    /\ cs_shake' = "none"
    /\ cs_reqs' = NoFetches
    /\ UNCHANGED <<clockVars, files, cs_call, csvIdle>>

NextCsv == CsvWarmup \/ CsvWait \/ CsvWarmupEnds \/ CsvSend \/ CsvFetchEnds \/ CsvRelaunch

SpecCsv == InitCsv /\ [][NextCsv]_vars

(***************************************************************************)
(* app.old: the option-chain normalizer                                    *)
(***************************************************************************)
\* d.get(k, None) with no conversion: a missing key gives None, anything
\* else is passed on as the provider sent it
GetOrNone(v) == IF v = Missing THEN Null ELSE v

\* a JSON string
Str(text) == [t |-> "str", n |-> 0, text |-> text]

\* the "CE" or "PE" entry of a record: the key is absent, its value is null,
\* or it is an object with the fields of that side
AbsentSide == [present |-> "absent", underlying |-> Missing, lastPrice |-> Missing, bidQty |-> Missing]
NullSide == [present |-> "null", underlying |-> Missing, lastPrice |-> Missing, bidQty |-> Missing]
Side(underlying, lastPrice, bidQty) ==
    [present |-> "object", underlying |-> underlying, lastPrice |-> lastPrice, bidQty |-> bidQty]

\* one element of records.data
Record(strikePrice, expiryDate, ce, pe) ==
    [strikePrice |-> strikePrice, expiryDate |-> expiryDate, CE |-> ce, PE |-> pe]

\* lines 78-102: the row of one side; option_data is {} when the key is absent
ChainRow(record, option_type) ==
    LET option_data == record[option_type]
    IN  [ticker |-> GetOrNone(option_data.underlying),
         ltp |-> GetOrNone(option_data.lastPrice),
         bidQty |-> GetOrNone(option_data.bidQty),
         strike |-> GetOrNone(record.strikePrice),
         expiry |-> record.expiryDate,
         optType |-> option_type]

\* lines 75-103 for one record: the dict literal always has both keys, so
\* both rows are built; a null side has no get and raises AttributeError
ChainRecordRows(record) ==
    IF record.CE.present = "null" \/ record.PE.present = "null"
    THEN [ok |-> FALSE, rows |-> <<>>]
    ELSE [ok |-> TRUE, rows |-> <<ChainRow(record, "CE"), ChainRow(record, "PE")>>]

RECURSIVE ChainRows(_)
ChainRows(records) ==
    IF records = <<>> THEN [ok |-> TRUE, rows |-> <<>>]
    ELSE LET first == ChainRecordRows(Head(records))
             rest == ChainRows(Tail(records))
         IN  IF first.ok /\ rest.ok
             THEN [ok |-> TRUE, rows |-> first.rows \o rest.rows]
             ELSE [ok |-> FALSE, rows |-> <<>>]

\* app.old.process_data: shape is "records" (an object whose "records" holds
\* a "data" list), "norecords" (an object without "records"), "recordsnull"
\* ("records" is null) or "list" (an array)
ap_process_data(data) ==
    CASE data.shape = "records" -> ChainRows(data.items)
      [] data.shape = "norecords" -> [ok |-> TRUE, rows |-> <<>>]
      [] OTHER -> [ok |-> FALSE, rows |-> <<>>]

\* the sides and records a payload may hold
FullSide == Side(Str("BANKNIFTY"), Num(5), Num(2))
ChainSides == {AbsentSide, NullSide, FullSide, Side(Str("BANKNIFTY"), Null, Missing)}
ChainRecords ==
    {Record(Num(100), Dmy(30), ce, pe) : ce \in ChainSides, pe \in ChainSides}
        \cup {Record(Missing, Dmy(30), FullSide, FullSide)}
ChainPayloads ==
    {Payload("records", q) : q \in SeqsUpTo(ChainRecords, MaxItems)}
        \cup {Payload(sh, <<>>) : sh \in {"norecords", "recordsnull", "list"}}

\* the arguments each normalizer may be applied to
NormInputs(fn) ==
    CASE fn = "ol_process_data" ->
            {[data |-> data, key |-> key, expiry_date |-> NoKey] :
                data \in NormPayloads, key \in Keys}
      [] fn = "ap_process_data" ->
            {[data |-> data, key |-> "none", expiry_date |-> NoKey] : data \in ChainPayloads}
      [] fn = "cs_run" ->
            {[data |-> data, key |-> key, expiry_date |-> NoKey] :
                data \in NormPayloads, key \in Keys}
      [] fn = "de_process_data" ->
            {[data |-> data, key |-> key, expiry_date |-> Iso(3)] :
                data \in NormPayloads, key \in Keys}

NormFunctions == {"ol_process_data", "ap_process_data", "cs_run", "de_process_data"}

InitNorm ==
    /\ now = DateTime(0, 0, 0)
    /\ gate = NoGate
    /\ files = NoFiles
    /\ db = <<>>
    /\ de_pc = "gate"
    /\ de_src = 1
    /\ de_expiry = NoExpiry
    /\ sv_call = NoCall
    /\ sv_last = NoFiles
    /\ sv_saves = 0
    /\ ol_pc = "cleanup"
    /\ ol_src = 1
    /\ ol_step = NoStep
    /\ ol_reqs = NoReqs
    /\ ol_reset = FALSE
    /\ ra_pc = "gate"
    /\ ra_i = 1
    /\ ra_procs = <<>>
    /\ ra_prev = <<>>
    /\ nm_fn \in NormFunctions
    /\ nm_in \in NormInputs(nm_fn)
    /\ nm_out = NoOutput
    /\ cs_pc = "start"
    /\ cs_src = 1
    /\ cs_call = NoRequest
    /\ cs_shake = "none"
    /\ cs_reqs = NoFetches
    /\ cs_runs = 1
    /\ cs_failed = FALSE
    /\ db_given = <<>>
    /\ db_conn = {}
    /\ tk_pc = "verify_client_id"
    /\ tk_calls = <<>>
    /\ tk_results = <<>>
    /\ tk_file = <<>>

\* run.no_shorting_old.process_data(data, key)
NormOld ==
    /\ nm_fn = "ol_process_data"
    /\ nm_out = NoOutput
    /\ nm_out' = ol_process_data(nm_in.data, nm_in.key)
    /\ UNCHANGED <<clockVars, nm_fn, nm_in, normIdle>>

\* app.old.process_data(data)
NormChain ==
    /\ nm_fn = "ap_process_data"
    /\ nm_out = NoOutput
    /\ nm_out' = ap_process_data(nm_in.data)
    /\ UNCHANGED <<clockVars, nm_fn, nm_in, normIdle>>

\* run_csv.run, lines 108-115, for one source: expiry selection and
\* process_data(raw_data, expiry_date)
NormCsv ==
    /\ nm_fn = "cs_run"
    /\ nm_out = NoOutput
    /\ nm_out' = cs_select_and_process(nm_in.data)
    /\ UNCHANGED <<clockVars, nm_fn, nm_in, normIdle>>

\* day_excel.process_data(data, key, expiry_date)
NormDay ==
    /\ nm_fn = "de_process_data"
    /\ nm_out = NoOutput
    /\ nm_out' = de_process_data(nm_in.data, nm_in.key, nm_in.expiry_date)
    /\ UNCHANGED <<clockVars, nm_fn, nm_in, normIdle>>

NextNorm == NormOld \/ NormChain \/ NormCsv \/ NormDay

SpecNorm == InitNorm /\ [][NextNorm]_vars

(***************************************************************************)
(* SpecDb: table nse_data of data.db, which day_excel and app.old both     *)
(* open, across starts of the two scripts                                  *)
(***************************************************************************)
\* day_excel.initialize_db: CREATE TABLE IF NOT EXISTS keeps the rows
initialize_db(table) == table

\* app.old.create_table: DROP TABLE IF EXISTS nse_data, then CREATE TABLE
create_table(table) == <<>>

\* app.old.save_to_db: data.to_sql('nse_data', if_exists='append')
ap_save_to_db(table, rows) == table \o rows

\* the row lists day_excel hands to save_to_db, and app.old to its own
DbDayRows == {<<>>, <<SinkRow(100)>>, <<SinkRow(200)>>, <<SinkRow(100), SinkRow(200)>>}
DbAppRows ==
    {ap_process_data(Payload("records", <<Record(Num(100), Dmy(30), FullSide, pe)>>)).rows :
        pe \in {FullSide, AbsentSide}}

InitDb ==
    /\ now = DateTime(0, 0, 0)
    /\ gate = NoGate
    /\ files = NoFiles
    /\ db = <<>>
    /\ de_pc = "gate"
    /\ de_src = 1
    /\ de_expiry = NoExpiry
    /\ sv_call = NoCall
    /\ sv_last = NoFiles
    /\ sv_saves = 0
    /\ ol_pc = "cleanup"
    /\ ol_src = 1
    /\ ol_step = NoStep
    /\ ol_reqs = NoReqs
    /\ ol_reset = FALSE
    /\ ra_pc = "gate"
    /\ ra_i = 1
    /\ ra_procs = <<>>
    /\ ra_prev = <<>>
    /\ nm_fn = "none"
    /\ nm_in = NoInput
    /\ nm_out = NoOutput
    /\ cs_pc = "start"
    /\ cs_src = 1
    /\ cs_call = NoRequest
    /\ cs_shake = "none"
    /\ cs_reqs = NoFetches
    /\ cs_runs = 1
    /\ cs_failed = FALSE
    /\ db_given = <<>>
    /\ db_conn = {}
    /\ tk_pc = "verify_client_id"
    /\ tk_calls = <<>>
    /\ tk_results = <<>>
    /\ tk_file = <<>>

\* day_excel is started: __init__ connects and calls initialize_db
DbDayStart ==
    /\ "day_excel" \notin db_conn
    /\ db_conn' = db_conn \cup {"day_excel"}
    /\ db' = initialize_db(db)
    /\ UNCHANGED <<clockVars, db_given, dbIdle>>

\* app.old is started: __init__ connects and calls create_table
DbAppStart ==
    /\ "app.old" \notin db_conn
    /\ db_conn' = db_conn \cup {"app.old"}
    /\ db' = create_table(db)
    /\ UNCHANGED <<clockVars, db_given, dbIdle>>

\* a running script is stopped
DbStop ==
    /\ \E script \in db_conn : db_conn' = db_conn \ {script}
    /\ UNCHANGED <<clockVars, db, db_given, dbIdle>>

\* day_excel.run line 154: self.save_to_db(rows)
DbDaySave ==
    /\ "day_excel" \in db_conn
    /\ \E rows \in DbDayRows :
        /\ Len(db_given) < MaxDbRows
        /\ db' = save_to_db(db, rows)
        /\ db_given' = db_given \o rows
    /\ UNCHANGED <<clockVars, db_conn, dbIdle>>

\* app.old.run lines 121-122: if not processed_data.empty: save_to_db
DbAppSave ==
    /\ "app.old" \in db_conn
    /\ \E rows \in DbAppRows :
        /\ Len(db_given) < MaxDbRows
        /\ db' = IF rows = <<>> THEN db ELSE ap_save_to_db(db, rows)
        /\ db_given' = db_given \o rows
    /\ UNCHANGED <<clockVars, db_conn, dbIdle>>

NextDb == DbDayStart \/ DbAppStart \/ DbStop \/ DbDaySave \/ DbAppSave

SpecDb == InitDb /\ [][NextDb]_vars

(***************************************************************************)
(* fyers/generate_token: the six-step handshake of main and the write of   *)
(* access_token.py                                                         *)
(***************************************************************************)
SUCCESS == 1
ERROR == -1

\* credentials.py, as the module constants of lines 22-28 hold it
CLIENT_ID == "user_name"
PIN == "pin"
APP_ID == "app_id"
APP_TYPE == "app_type"
TOTP_SECRET_KEY == "totp_key"
REDIRECT_URI == "redirect_uri"

\* the values the server may hand out: request keys, tokens, auth codes
TokenValues == {"a", "b"}

\* what requests.post and the reading of its body come to: requests raised,
\* or a status code with a body that is no JSON, JSON without the entry
\* read, or JSON holding value under it
Raised == [raised |-> TRUE, status_code |-> 0, body |-> "none", value |-> "none"]
HttpReplies ==
    {Raised} \cup
    {[raised |-> FALSE, status_code |-> code, body |-> body, value |-> value] :
        code \in {200, 308, 401}, body \in {"notjson", "nokey", "json"}, value \in TokenValues}

\* what pyotp.TOTP(secret).now() comes to: it raised, or a code
TotpOutcomes ==
    {Raised} \cup
    {[raised |-> FALSE, status_code |-> 0, body |-> "none", value |-> value] :
        value \in TokenValues}

\* [ERROR, result_string.text] and [ERROR, str(e)]
Error == [status |-> ERROR, value |-> "text"]

\* the body the five functions that post share: the status test, then
\* json.loads and the subscript, whose exceptions the except clause turns
\* into ERROR
PostResult(reply, expected) ==
    IF reply.raised THEN Error
    ELSE IF reply.status_code # expected THEN Error
    ELSE IF reply.body # "json" THEN Error
    ELSE [status |-> SUCCESS, value |-> reply.value]

verify_client_id(client_id, reply) == PostResult(reply, 200)

\* pyotp.TOTP(secret).now() returns a code or raises (a secret that is no
\* base32)
generate_totp(secret, outcome) ==
    IF outcome.raised THEN Error ELSE [status |-> SUCCESS, value |-> outcome.value]

verify_totp(request_key, totp, reply) == PostResult(reply, 200)

verify_PIN(request_key, pin, reply) == PostResult(reply, 200)

\* line 109: the auth code comes with status 308
token(client_id, app_id, redirect_uri, app_type, access_token, reply) == PostResult(reply, 308)

validate_authcode(auth_code, reply) == PostResult(reply, 200)

\* the order of the calls in main
Steps == <<"verify_client_id", "generate_totp", "verify_totp", "verify_PIN", "token",
           "validate_authcode">>

GoOnWhateverReturned(result, next) == next

\* if result[0] != SUCCESS: print(...); sys.exit()
exit_unless_success(result, next) == IF result.status # SUCCESS THEN "exited" ELSE next

InitToken ==
    /\ now = DateTime(0, 0, 0)
    /\ gate = NoGate
    /\ files = NoFiles
    /\ db = <<>>
    /\ de_pc = "gate"
    /\ de_src = 1
    /\ de_expiry = NoExpiry
    /\ sv_call = NoCall
    /\ sv_last = NoFiles
    /\ sv_saves = 0
    /\ ol_pc = "cleanup"
    /\ ol_src = 1
    /\ ol_step = NoStep
    /\ ol_reqs = NoReqs
    /\ ol_reset = FALSE
    /\ ra_pc = "gate"
    /\ ra_i = 1
    /\ ra_procs = <<>>
    /\ ra_prev = <<>>
    /\ nm_fn = "none"
    /\ nm_in = NoInput
    /\ nm_out = NoOutput
    /\ cs_pc = "start"
    /\ cs_src = 1
    /\ cs_call = NoRequest
    /\ cs_shake = "none"
    /\ cs_reqs = NoFetches
    /\ cs_runs = 1
    /\ cs_failed = FALSE
    /\ db_given = <<>>
    /\ db_conn = {}
    /\ tk_pc = "verify_client_id"
    /\ tk_calls = <<>>
    /\ tk_results = <<>>
    /\ tk_file = <<>>

\* one step of main: the call of fn with args, its result, and the test of
\* the result
TokenCall(fn, args, result, next) ==
    /\ tk_calls' = Append(tk_calls, [fn |-> fn, args |-> args])
    /\ tk_results' = Append(tk_results, result)
    /\ tk_pc' = exit_unless_success(result, next)
    /\ UNCHANGED <<clockVars, sinkVars, gateVars, dayVars, callVars, oldVars, allVars,
                   normVars, csvVars, dbhVars, tk_file>>

\* lines 144-148
TokenVerifyClientId ==
    /\ tk_pc = "verify_client_id"
    /\ \E reply \in HttpReplies :
        TokenCall("verify_client_id", <<CLIENT_ID>>,
                  verify_client_id(CLIENT_ID, reply), "generate_totp")

\* lines 151-155
TokenGenerateTotp ==
    /\ tk_pc = "generate_totp"
    /\ \E outcome \in TotpOutcomes :
        TokenCall("generate_totp", <<TOTP_SECRET_KEY>>,
                  generate_totp(TOTP_SECRET_KEY, outcome), "verify_totp")

\* lines 158-162: request_key of step 1 and totp of step 2
TokenVerifyTotp ==
    /\ tk_pc = "verify_totp"
    /\ \E reply \in HttpReplies :
        LET request_key == tk_results[1].value
            totp == tk_results[2].value
        IN  TokenCall("verify_totp", <<request_key, totp>>,
                      verify_totp(request_key, totp, reply), "verify_PIN")

\* lines 165-169
TokenVerifyPin ==
    /\ tk_pc = "verify_PIN"
    /\ \E reply \in HttpReplies :
        LET request_key_2 == tk_results[3].value
        IN  TokenCall("verify_PIN", <<request_key_2, PIN>>,
                      verify_PIN(request_key_2, PIN, reply), "token")

\* lines 172-176
TokenToken ==
    /\ tk_pc = "token"
    /\ \E reply \in HttpReplies :
        LET access_token == tk_results[4].value
        IN  TokenCall("token", <<CLIENT_ID, APP_ID, REDIRECT_URI, APP_TYPE, access_token>>,
                      token(CLIENT_ID, APP_ID, REDIRECT_URI, APP_TYPE, access_token, reply),
                      "validate_authcode")

\* lines 179-183
TokenValidateAuthcode ==
    /\ tk_pc = "validate_authcode"
    /\ \E reply \in HttpReplies :
        LET auth_code == tk_results[5].value
        IN  TokenCall("validate_authcode", <<auth_code>>,
                      validate_authcode(auth_code, reply), "save")

\* lines 186-189: open("access_token.py", "w") and the two writes; open may
\* raise, which ends the script with nothing written
TokenSave ==
    /\ tk_pc = "save"
    /\ \E opened \in BOOLEAN :
        IF opened
        THEN /\ tk_file' = Append(tk_file, [client_id |-> "client_id",
                                            access_token |-> tk_results[6].value])
             /\ tk_pc' = "done"
        ELSE /\ tk_pc' = "crashed"
             /\ UNCHANGED tk_file
    /\ UNCHANGED <<clockVars, sinkVars, gateVars, dayVars, callVars, oldVars, allVars,
                   normVars, csvVars, dbhVars, tk_calls, tk_results>>

NextToken ==
    \/ TokenVerifyClientId \/ TokenGenerateTotp \/ TokenVerifyTotp \/ TokenVerifyPin
    \/ TokenToken \/ TokenValidateAuthcode \/ TokenSave

SpecToken == InitToken /\ [][NextToken]_vars

(***************************************************************************)
(* C1                                                                      *)
(***************************************************************************)
\* the eligible weekdays and the close of each gate's window
EligibleDays(fn) == IF fn = "is_trading_hour" THEN 0..3 ELSE 0..4
CloseSecOf(fn) == IF fn = "is_trading_hour" THEN CloseDaySec ELSE CloseAllSec

\* time of day in half seconds: a non-zero microsecond part counts as a half
HalfSec(dt) == 2 * SecOfDay(dt) + dt.us

\* C1: a gate call returns OPEN exactly when the weekday it read is eligible
\* (Mon-Thu for is_trading_hour, Mon-Fri for is_within_time_range) and the
\* time of day it read lies in [09:15:00, close] with both ends included; the
\* value is a function of the time read alone.
C1_GateInclusive ==
    gate.fn # "none" =>
        (gate.open <=>
            /\ weekday(gate.at) \in EligibleDays(gate.fn)
            /\ 2 * OpenSec <= HalfSec(gate.at)
            /\ HalfSec(gate.at) <= 2 * CloseSecOf(gate.fn))

\* C1 witness: the gate was called at exactly 09:15:00 on an eligible weekday
\* and returned OPEN
C1_Witness ==
    /\ gate.fn = "is_trading_hour"
    /\ weekday(gate.at) = 3
    /\ HalfSec(gate.at) = 2 * OpenSec
    /\ gate.open

(***************************************************************************)
(* C2                                                                      *)
(***************************************************************************)
\* the rows a sequence holds
RowsOf(q) == {q[i] : i \in 1..Len(q)}

\* every row that has reached a sink: a snapshot file or the table
SinkRows == RowsOf(db) \cup UNION {RowsOf(files[p]) : p \in DOMAIN files}

\* C2: no row whose strike price is exactly 0 is present in the filtered
\* output that reaches a sink (snapshot file or table).
C2_NoZeroStrikeInSinks == \A r \in SinkRows : r.strike # 0

(***************************************************************************)
(* C3                                                                      *)
(***************************************************************************)
\* the first Thursday on or after calendar day d, and the first one after it
ThursdayOnOrAfter(d) == CHOOSE e \in d..(d + 6) : e % 7 = 3
ThursdayAfter(d) == CHOOSE e \in (d + 1)..(d + 7) : e % 7 = 3

\* C3 as stated: the expiry date the loop computes is the first Thursday
\* strictly after today, so today + 7 days when today is a Thursday.
C3_ThursdayPlusSeven ==
    de_expiry.set => de_expiry.value = Iso(ThursdayAfter(de_expiry.at.day))

\* C3 as amended: the expiry date the loop computes is today when today is a
\* Thursday (offset 0), and the first Thursday after today on every other
\* weekday.
C3_NearestThursday ==
    de_expiry.set =>
        /\ de_expiry.value = Iso(ThursdayOnOrAfter(de_expiry.at.day))
        /\ weekday(de_expiry.at) = 3 => de_expiry.value = Iso(de_expiry.at.day)
        /\ weekday(de_expiry.at) # 3 =>
               de_expiry.value = Iso(ThursdayAfter(de_expiry.at.day))

\* C3 witness: the loop computed the expiry date on a Thursday and got today
C3_Witness ==
    /\ de_expiry.set
    /\ weekday(de_expiry.at) = 3
    /\ de_expiry.value = Iso(de_expiry.at.day)

(***************************************************************************)
(* C4                                                                      *)
(***************************************************************************)
\* two sequences hold the same rows, whatever the order
SameRows(a, b) == Len(a) = Len(b) /\ RowsOf(a) = RowsOf(b)

\* the call just made is a save that follows an earlier save to the same
\* partition with a different row set
SecondSave ==
    /\ sv_call.op \in {"save_to_csv", "save_to_excel"}
    /\ sv_call.hadPrev
    /\ RowsOf(sv_call.prev) # RowsOf(sv_call.rows)

\* C4 as stated: after the second of two consecutive saves to a partition
\* with different row sets, the partition's file holds exactly the rows of
\* the second save.
C4_LastWriteWins ==
    SecondSave =>
        /\ sv_call.path \in DOMAIN files
        /\ SameRows(files[sv_call.path], sv_call.rows)

\* C4 as amended: the same, for a second save whose row set is not empty (a
\* save of no rows writes nothing).
C4_LastNonEmptyWriteWins ==
    SecondSave /\ sv_call.rows # <<>> =>
        /\ sv_call.path \in DOMAIN files
        /\ SameRows(files[sv_call.path], sv_call.rows)

\* C4 witness: a non-empty save replaced the different, non-empty rows of the
\* save before it
C4_Witness ==
    /\ SecondSave
    /\ sv_call.rows # <<>>
    /\ sv_call.prev # <<>>
    /\ sv_call.path \in DOMAIN sv_call.before
    /\ SameRows(sv_call.before[sv_call.path], sv_call.prev)
    /\ SameRows(files[sv_call.path], sv_call.rows)

(***************************************************************************)
(* C5                                                                      *)
(***************************************************************************)
\* the reset was just called within the boundary minute, Friday 09:15
ResetAtBoundary ==
    /\ sv_call.op = "cleanup_and_initialize"
    /\ weekday(sv_call.at) = 4
    /\ BoundarySec <= SecOfDay(sv_call.at)
    /\ SecOfDay(sv_call.at) < BoundarySec + 60

\* the xlsx snapshot partitions of the given days
SnapshotsOf(days) == {p \in Partitions : p[1] \in days /\ p[3] = "xlsx"}

PastBoundary ==
    /\ ol_pc # "crashed"
    /\ weekday(now) = 4
    /\ SecOfDay(now) >= BoundarySec + 60

\* C6 as stated: while the loop of run.no_shorting_old runs across the
\* Friday 09:15 minute, sampling the reset condition once per cycle of a
\* check, one fetch per source and a 60-second sleep, the reset is performed
\* within that minute: once the minute is over, the reset has been done.
C6_ResetEveryBoundary == PastBoundary => ol_reset

(***************************************************************************)
(* C7                                                                      *)
(***************************************************************************)
\* every process of the list has ended
AllEnded(procs) == \A k \in DOMAIN procs : procs[k].st = "exited"

\* C7: in run_all.main every process of a cycle is started before the first
\* join; the orchestrator is past the joins (sleeping, checking the time,
\* listing the folder, waiting, or out of the loop) only when every process
\* of the cycle has ended; and every process of the cycle before has ended,
\* so that whenever a process runs, only processes of its own cycle run.
C7_JoinBarrier ==
    /\ ra_pc = "start" =>
        \A k \in DOMAIN ra_procs : (ra_procs[k].st = "created") <=> (k >= ra_i)
    /\ ra_pc = "join" =>
        /\ \A k \in DOMAIN ra_procs : ra_procs[k].st # "created"
        /\ \A k \in DOMAIN ra_procs : k < ra_i => ra_procs[k].st = "exited"
    /\ ra_pc \notin {"start", "join"} => AllEnded(ra_procs)
    /\ AllEnded(ra_prev)

\* C7 witness: in a second cycle two processes run at once, none joined
\* yet, after the processes of the first cycle ended
C7_Witness ==
    /\ ra_pc = "join"
    /\ ra_i = 1
    /\ Len(ra_procs) = 2
    /\ \A k \in DOMAIN ra_procs : ra_procs[k].st = "running"
    /\ ra_prev # <<>>

(***************************************************************************)
(* C8                                                                      *)
(***************************************************************************)
\* the process ended and its script crashed, exited non-zero or did not run
Failed(p) == p.st = "exited" /\ p.result # "ok"

\* a process of the cycle under way has failed
FailureInCycle == ra_pc \in {"start", "join"} /\ \E k \in DOMAIN ra_procs : Failed(ra_procs[k])

\* the step in which process k ends leaves the orchestrator where it is and
\* every other process as it is
EndsAlone(k) ==
    (ra_procs[k].st = "running" /\ ra_procs'[k].st = "exited") =>
        /\ ra_pc' = ra_pc
        /\ DOMAIN ra_procs' = DOMAIN ra_procs
        /\ \A j \in DOMAIN ra_procs : j # k => ra_procs'[j] = ra_procs[j]

FailureKinds == {"status", "neterr", "badjson"}

\* the position of key in the order of the sources
IndexOf(key) == CHOOSE i \in 1..Len(DataSources) : DataSources[i] = key

\* C9: in the loop of run.no_shorting_old, when the response for a source is
\* a non-200 status, a transport error or an undecodable body, fetch_data
\* returns None and nothing is raised; the pass for that source writes no
\* file; no source gets a second request in the same cycle; and the loop
\* goes on to the next source, so that at the end of the cycle every source
\* has had exactly one request.
C9_FetchFailureSkipsSource ==
    /\ \A resp \in OldResponses :
        resp.kind \in FailureKinds => ol_fetch_data(resp) = NonePayload
    /\ \A key \in Keys : Len(ol_reqs[key]) <= 1
    /\ ol_step.kind \in FailureKinds =>
        /\ ol_pc # "crashed"
        /\ files = ol_step.before
        /\ ol_reqs[ol_step.key] = <<ol_step.kind>>
        /\ IF IndexOf(ol_step.key) < Len(DataSources)
           THEN ol_pc = "fetch" /\ ol_src = IndexOf(ol_step.key) + 1
           ELSE ol_pc \in {"sleep", "cleanup"}
    /\ ol_pc = "sleep" => \A key \in Keys : Len(ol_reqs[key]) = 1

\* C9 witness: a cycle is over in which the first source got a non-200
\* status with a body that holds an item, its snapshot was not written, and
\* the second source was fetched and its snapshot written
C9_Witness ==
    /\ ol_pc = "sleep"
    /\ ol_reqs[DataSources[1]] = <<"status">>
    /\ ol_reqs[DataSources[2]] = <<"ok">>
    /\ <<"Friday", DataSources[1], "xlsx">> \in DOMAIN files
    /\ files[<<"Friday", DataSources[1], "xlsx">>] = StaleWeek[<<"Friday", DataSources[1], "xlsx">>]
    /\ files # ol_step.before
    /\ files[<<"Friday", DataSources[2], "xlsx">>] # <<>>

(***************************************************************************)
(* C10                                                                     *)
(***************************************************************************)
\* C10 as stated: for a payload that decoded, process_data raises nothing,
\* so the loop of run.no_shorting_old is never ended by an exception of the
\* pass for a source whose response was a 200 with a decodable body.
C10_ProcessDataNeverRaises == ol_step.kind = "ok" => ol_pc # "crashed"

(***************************************************************************)
(* C11                                                                     *)
(***************************************************************************)
\* the item has everything the row is built from, except possibly bid levels
HasRowFields(item) ==
    /\ item.md /\ item.book /\ item.trade /\ item.other
    /\ \A v \in {item.vmap, item.vol, item.lastPrice, item.strike, item.bidQty, item.bidPrice} :
        Coalesce(v).ok

\* C11 as stated: run.no_shorting_old.process_data, given items that are
\* well-formed but for a bid-levels array that is absent or empty, raises
\* nothing and emits each such item's row with bid quantity 0 and bid price 0.
C11_BidDefaulted ==
    (/\ nm_fn = "ol_process_data"
     /\ nm_out # NoOutput
     /\ nm_in.data.shape = "stocks"
     /\ \A i \in DOMAIN nm_in.data.items :
            HasRowFields(nm_in.data.items[i]) /\ nm_in.data.items[i].bid \in {"absent", "empty"})
        => /\ nm_out.ok
           /\ Len(nm_out.rows) = Len(nm_in.data.items)
           /\ \A i \in DOMAIN nm_out.rows : nm_out.rows[i].bidQty = 0 /\ nm_out.rows[i].bid = 0

(***************************************************************************)
(* C12                                                                     *)
(***************************************************************************)
\* the sides of the record that are present as objects
PopulatedSides(record) == {side \in {"CE", "PE"} : record[side].present = "object"}

RECURSIVE SidesIn(_)
SidesIn(records) ==
    IF records = <<>> THEN 0
    ELSE Cardinality(PopulatedSides(Head(records))) + SidesIn(Tail(records))

\* C12 as stated: app.old.process_data emits, for every record, as many
\* rows as the record has populated sides (zero, one or two), so the rows
\* of a payload number the populated sides of its records.
C12_RowPerPopulatedSide ==
    (nm_fn = "ap_process_data" /\ nm_out # NoOutput /\ nm_in.data.shape = "records"
        /\ \A i \in DOMAIN nm_in.data.items :
            nm_in.data.items[i].CE.present # "null" /\ nm_in.data.items[i].PE.present # "null")
        => nm_out.ok /\ Len(nm_out.rows) = SidesIn(nm_in.data.items)

(***************************************************************************)
(* C13                                                                     *)
(***************************************************************************)
\* C13 as stated: in every row a normalizer emits, every numeric field holds
\* a number and never null. The option-chain rows carry the provider's
\* values; the quote-derivative rows carry the converted numbers.
C13_NumericNeverNull ==
    nm_out.ok =>
        \A i \in DOMAIN nm_out.rows :
            IF nm_fn = "ap_process_data"
            THEN \A v \in {nm_out.rows[i].ltp, nm_out.rows[i].bidQty, nm_out.rows[i].strike} :
                    v.t = "num"
            ELSE \A n \in {nm_out.rows[i].ltp, nm_out.rows[i].bidQty, nm_out.rows[i].bid,
                           nm_out.rows[i].avg, nm_out.rows[i].vol, nm_out.rows[i].strike,
                           nm_out.rows[i].calc} : n \in Int

(***************************************************************************)
(* C14                                                                     *)
(***************************************************************************)
\* run.no_shorting_old.process_data was applied to a "stocks" payload whose
\* items all have the entries the row is built from
OldAppliedToWellFormed ==
    /\ nm_fn = "ol_process_data"
    /\ nm_out # NoOutput
    /\ nm_in.data.shape = "stocks"
    /\ \A i \in DOMAIN nm_in.data.items :
        HasRowFields(nm_in.data.items[i]) /\ nm_in.data.items[i].bid # "empty"

CsvAppliedToWellFormed ==
    /\ nm_fn = "cs_run"
    /\ nm_out # NoOutput
    /\ nm_in.data.shape = "stocks"
    /\ \A i \in DOMAIN nm_in.data.items :
        /\ HasRowFields(nm_in.data.items[i])
        /\ nm_in.data.items[i].bid # "empty"
        /\ nm_in.data.items[i].expiry.fmt = "dmy"
        /\ nm_in.data.items[i].optType # "missing"

\* the items of the payload with no later calendar expiry than any other
\* item and a strike that is not zero
EarliestNonZero ==
    {i \in DOMAIN nm_in.data.items :
        /\ \A j \in DOMAIN nm_in.data.items :
            nm_in.data.items[i].expiry.d <= nm_in.data.items[j].expiry.d
        /\ Coalesce(nm_in.data.items[i].strike).v # 0}

\* C18: run_csv, for a payload with items, selects the earliest expiry by
\* calendar date and hands to save_to_csv exactly the rows of the items
\* that have that expiry and a non-zero strike, each item once; for a
\* payload with no items there are no rows and nothing is written.
C18_EarliestExpiryRows ==
    CsvAppliedToWellFormed =>
        /\ nm_out.ok
        /\ Len(nm_out.rows) = Cardinality(EarliestNonZero)
        /\ \A i \in EarliestNonZero :
            Cardinality({k \in DOMAIN nm_out.rows :
                            /\ nm_out.rows[k].expiry = nm_in.data.items[i].expiry
                            /\ nm_out.rows[k].strike = Coalesce(nm_in.data.items[i].strike).v
                            /\ nm_out.rows[k].optType = nm_in.data.items[i].optType})
              = Cardinality({j \in EarliestNonZero :
                            /\ nm_in.data.items[j].expiry = nm_in.data.items[i].expiry
                            /\ Coalesce(nm_in.data.items[j].strike).v
                                    = Coalesce(nm_in.data.items[i].strike).v
                            /\ nm_in.data.items[j].optType = nm_in.data.items[i].optType})
        /\ nm_in.data.items = <<>> => save_to_csv(NoFiles, nm_out.rows, nm_in.key, now) = NoFiles

\* C18 witness: of two items the second has the earlier expiry, 30-Jan
\* against 02-Feb, which as text is the later one; its row is the output
C18_Witness ==
    /\ CsvAppliedToWellFormed
    /\ Len(nm_in.data.items) = 2
    /\ nm_in.data.items[1].expiry = Dmy(33)
    /\ nm_in.data.items[2].expiry = Dmy(30)
    /\ Len(nm_out.rows) = 1
    /\ nm_out.rows[1].expiry = Dmy(30)

(***************************************************************************)
(* C20                                                                     *)
(***************************************************************************)
\* the row can have come from the item
RowOf(row, item) ==
    /\ row.strike = Coalesce(item.strike).v
    /\ row.optType \in {item.optType, ""}
    /\ row.expiry \in {item.expiry, EmptyStr}

\* the rows come, in their order, from items met in that order
RECURSIVE InPayloadOrder(_, _)
InPayloadOrder(rows, items) ==
    IF rows = <<>> THEN TRUE
    ELSE IF items = <<>> THEN FALSE
    ELSE IF RowOf(Head(rows), Head(items))
         THEN InPayloadOrder(Tail(rows), Tail(items))
         ELSE InPayloadOrder(rows, Tail(items))

\* a quote-derivative normalizer returned rows
QuoteReturned ==
    /\ nm_fn \in {"ol_process_data", "cs_run", "de_process_data"}
    /\ nm_out # NoOutput
    /\ nm_out.ok

\* what day_excel.save_to_excel writes to a new file for the rows returned
ExcelWritten == de_save_to_excel(NoFiles, nm_out.rows, nm_in.key, "Monday")[<<"Monday", nm_in.key, "xlsx">>]

\* C20 as stated: the rows a normalizer returns, and the rows written to
\* the sink, are in the order of the payload's items; nothing is sorted.
C20_PayloadOrderKept ==
    QuoteReturned =>
        /\ InPayloadOrder(nm_out.rows, nm_in.data.items)
        /\ (nm_fn = "de_process_data" /\ nm_out.rows # <<>>) =>
                InPayloadOrder(ExcelWritten, nm_in.data.items)

\* C20 as amended: run.no_shorting_old.process_data and
\* day_excel.process_data return the rows in the order of the payload's
\* items, and day_excel.save_to_db inserts them in that order;
\* run_csv.process_data returns its rows sorted ascending by strike price
\* and, within a strike, by option type; day_excel.save_to_excel writes its
\* rows sorted ascending by strike price.
C20_OrderPerSink ==
    QuoteReturned =>
        /\ nm_fn \in {"ol_process_data", "de_process_data"} =>
                InPayloadOrder(nm_out.rows, nm_in.data.items)
        /\ nm_fn = "cs_run" =>
                \A k, l \in DOMAIN nm_out.rows :
                    k < l => StrikeTypeLe(nm_out.rows[k], nm_out.rows[l])
        /\ (nm_fn = "de_process_data" /\ nm_out.rows # <<>>) =>
                /\ save_to_db(<<>>, nm_out.rows) = nm_out.rows
                /\ Len(ExcelWritten) = Len(nm_out.rows)
                /\ \A k, l \in DOMAIN ExcelWritten :
                    k < l => ExcelWritten[k].strike <= ExcelWritten[l].strike

\* C20 witness: run_csv returned two rows of one expiry, sorted, in the
\* other order than the payload's
C20_Witness ==
    /\ QuoteReturned
    /\ nm_fn = "cs_run"
    /\ Len(nm_out.rows) = 2
    /\ ~InPayloadOrder(nm_out.rows, nm_in.data.items)
    /\ StrikeTypeLe(nm_out.rows[1], nm_out.rows[2])

(***************************************************************************)
(* C15                                                                     *)
(***************************************************************************)
\* C15 as stated: every provider call of a pipeline instance, the warm-up
\* request and each fetch, is bounded by a timeout: no request of run_csv
\* is still waited for after more seconds than the timeout of the fetches.
C15_CallsBounded == cs_call.what # "none" => cs_call.waited <= Timeout

(***************************************************************************)
(* C16                                                                     *)
(***************************************************************************)
\* C16 as stated: after a launch whose session warm-up failed, every later
\* cycle still sends a fetch request for every source: when a later launch
\* of run_csv has ended, each source has had a request in it.
C16_FetchesAfterFailedHandshake ==
    (cs_failed /\ cs_pc \in {"done", "crashed"}) => \A key \in Keys : cs_reqs[key] >= 1

(***************************************************************************)
(* C17                                                                     *)
(***************************************************************************)
\* how many times the row is in the sequence
CountIn(row, rows) == Cardinality({k \in DOMAIN rows : rows[k] = row})

\* C17 as stated: whatever cycles and starts of the scripts there have
\* been, table nse_data holds every row handed to save_to_db so far, each
\* as many times as it was handed: no row is ever removed or merged.
C17_AppendOnly ==
    \A k \in DOMAIN db_given : CountIn(db_given[k], db) >= CountIn(db_given[k], db_given)

(***************************************************************************)
(* C19                                                                     *)
(***************************************************************************)
\* one of the trading-window gates of the repository is open at t
SomeGateOpen(t) ==
    is_trading_hour(t) \/ is_within_time_range(ra_start_time, ra_end_time, t)

\* C19 as stated, for the loop of run.no_shorting_old.run: a cycle sends a
\* request to a source only at a time at which the trading-window gate is
\* open; in a cycle where it is closed no fetch is issued.
C19_FetchOnlyWhenGateOpen ==
    [][ol_reqs' # ol_reqs => SomeGateOpen(now)]_vars

(***************************************************************************)
(* C21                                                                     *)
(***************************************************************************)
\* the rows a quote normalizer returned
QuoteRowsOut ==
    IF nm_fn \in {"ol_process_data", "cs_run"} /\ nm_out # NoOutput /\ nm_out.ok
    THEN {nm_out.rows[i] : i \in DOMAIN nm_out.rows}
    ELSE {}

\* C21 as stated: in every row run_csv.process_data and
\* run.no_shorting_old.process_data emit, the derived field is the row's own
\* average price times its own volume over 10,000,000, and it is 0 whenever
\* the average price is 0 or the volume is 0.
C21_DerivedValue ==
    \A r \in QuoteRowsOut :
        /\ r.calc = calc_col_1(r.avg, r.vol)
        /\ (r.avg = 0 \/ r.vol = 0) => r.calc = 0

(***************************************************************************)
(* C22                                                                     *)
(***************************************************************************)
\* the last call was a save with no rows
EmptySave == sv_call.op \in {"save_to_csv", "save_to_excel"} /\ sv_call.rows = <<>>

\* C22: a save called with no rows (save_to_csv, and save_to_excel of
\* run.no_shorting_old and of day_excel) leaves every file as it was: the
\* partition's snapshot is neither created, emptied nor rewritten, so the
\* rows of an earlier cycle or of the same weekday of an earlier week stay.
C22_EmptySaveKeepsFile == EmptySave => files = sv_call.before

\* C22 witness: a save with no rows came to a partition whose file holds rows
\* (of an earlier save, or of the week before), and the file still holds them
C22_Witness ==
    /\ EmptySave
    /\ sv_call.path \in DOMAIN sv_call.before
    /\ sv_call.before[sv_call.path] # <<>>
    /\ files[sv_call.path] = sv_call.before[sv_call.path]

(***************************************************************************)
(* C23                                                                     *)
(***************************************************************************)
\* day_excel.process_data was applied and returned
DayReturned == nm_fn = "de_process_data" /\ nm_out # NoOutput /\ nm_out.ok

\* every item of the payload carries its expiry date in the DD-Mon-YYYY form
\* that run_csv parses
AllInProviderForm ==
    /\ nm_in.data.shape = "stocks"
    /\ nm_in.data.items # <<>>
    /\ \A i \in DOMAIN nm_in.data.items : strptime_dbY(nm_in.data.items[i].expiry).ok

\* C23: day_excel's filter keeps a row only if its expiry-date string equals
\* the computed YYYY-MM-DD string character for character, and keeps every
\* such row; a row with the same calendar date written DD-Mon-YYYY is
\* dropped, so for a payload in that form the filtered output is empty, and
\* save_to_excel and save_to_db, given it, write no file and insert no row.
C23_FilterComparesText ==
    DayReturned =>
        /\ \A k \in DOMAIN nm_out.rows : nm_out.rows[k].expiry = nm_in.expiry_date
        /\ Len(nm_out.rows) =
               Cardinality({i \in DOMAIN nm_in.data.items :
                               nm_in.data.items[i].expiry = nm_in.expiry_date})
        /\ AllInProviderForm =>
               /\ nm_out.rows = <<>>
               /\ \A fs \in {NoFiles, StaleWeek} :
                      de_save_to_excel(fs, nm_out.rows, nm_in.key, strftimeA(now)) = fs
               /\ \A table \in SinkRowSeqs : save_to_db(table, nm_out.rows) = table

\* C23 witness: a payload in the provider's form with an item on the very
\* calendar day of the computed date came out as no row
C23_Witness ==
    /\ DayReturned
    /\ AllInProviderForm
    /\ \E i \in DOMAIN nm_in.data.items :
        /\ nm_in.data.items[i].expiry.d = nm_in.expiry_date.d
        /\ Coalesce(nm_in.data.items[i].strike).v # 0
    /\ nm_out.rows = <<>>

(***************************************************************************)
(* C24                                                                     *)
(***************************************************************************)
\* the values of a tuple
ValuesOf(args) == {args[i] : i \in DOMAIN args}

\* the calls made so far are the first steps of main, in its order; each was
\* made after every earlier one returned SUCCESS, so an ERROR is the last
\* result; the file is written only after six SUCCESS results, once, with
\* the token of step 6
OrderAndStop ==
    /\ Len(tk_calls) <= Len(Steps)
    /\ Len(tk_results) = Len(tk_calls)
    /\ \A k \in DOMAIN tk_calls :
        /\ tk_calls[k].fn = Steps[k]
        /\ \A j \in 1..(k - 1) : tk_results[j].status = SUCCESS
    /\ (\E k \in DOMAIN tk_results : tk_results[k].status = ERROR) => tk_pc = "exited"
    /\ tk_file # <<>> =>
        /\ Len(tk_file) = 1
        /\ Len(tk_results) = Len(Steps)
        /\ \A k \in DOMAIN tk_results : tk_results[k].status = SUCCESS
        /\ tk_file[1].access_token = tk_results[Len(Steps)].value

\* C24 as stated: the six steps run in order, each only after every earlier
\* one returned SUCCESS, the first ERROR ends the flow, the file is written
\* once and only after six SUCCESS results, and every step after the first
\* is given the value the step before it produced.
C24_EachConsumesPrevious ==
    /\ OrderAndStop
    /\ \A k \in 2..Len(tk_calls) : tk_results[k - 1].value \in ValuesOf(tk_calls[k].args)

\* C24 as amended: the same order, stop and write rules; generate_totp is
\* given the configured TOTP secret and nothing of step 1; verify_totp is
\* given the request key of step 1 and the code of step 2; verify_PIN, token
\* and validate_authcode are each given the value the step before produced.
C24_HandshakeOrder ==
    /\ OrderAndStop
    /\ Len(tk_calls) >= 2 => tk_calls[2].args = <<TOTP_SECRET_KEY>>
    /\ Len(tk_calls) >= 3 => tk_calls[3].args = <<tk_results[1].value, tk_results[2].value>>
    /\ \A k \in 4..Len(tk_calls) : tk_results[k - 1].value \in ValuesOf(tk_calls[k].args)

\* C24 witness: all six steps returned SUCCESS with values that differ from
\* step to step, and the file was written
C24_Witness ==
    /\ tk_pc = "done"
    /\ Len(tk_file) = 1
    /\ \A k \in 2..Len(tk_results) : tk_results[k].value # tk_results[k - 1].value

====
